---- MODULE Spec2Model ----
(***************************************************************************)
(* The privilege graph of Catalog/Grantee.{h,cpp}: grantees (users and     *)
(* roles), the "role granted to grantee" edges kept on both ends           *)
(* (Grantee::roles_, Role::grantees_), and the two privilege maps of every *)
(* grantee (directPrivileges_, effectivePrivileges_).                      *)
(*                                                                         *)
(* Every member function is an operator from a graph state S (a record of  *)
(* the four fields of every grantee) to the SET of states the call can     *)
(* return: roles_ and grantees_ are std::unordered_set, whose iteration    *)
(* order is unspecified, so a loop over one of them is modelled under      *)
(* every order.  A call that throws leaves the state it had reached and    *)
(* reports the error in S.err.                                             *)
(*                                                                         *)
(* The lock guards of RWLocks.h (read_lock, write_lock, sqlite_lock) are   *)
(* modelled statement by statement over two threads and two catalogs of    *)
(* one type: the acquisition of a mutex, the write of the owner field and  *)
(* the release are separate steps, and guards are destroyed innermost      *)
(* first.                                                                  *)
(*                                                                         *)
(* ForeignDataImporter::import is modelled as its workers' loop over the   *)
(* batches, the update of import_status under import_status_mutex, and     *)
(* finalize, which ends in connector_->rollback or connector_->checkpoint. *)
(*                                                                         *)
(* A buffer pool is modelled over the MemoryData / MemoryInfo records of   *)
(* DataMgr/DataMgr.h; the buffer manager that allocates, stamps and evicts *)
(* is not among the sources and follows the specification's section 4.2.   *)
(***************************************************************************)
EXTENDS Integers, FiniteSets, Sequences, TLC

\* ---------------------------------------------------------------- bounds
\* the roles of the largest role graph explored
NumRoles == 3

Role(i) == <<"role", i>>
User(i) == <<"user", i>>
Roles == {Role(i) : i \in 1..NumRoles}
Users == {User(1)}
Grantees == Users \cup Roles

\* User::isUser / Role::isUser
isUser(g) == g[1] = "user"

\* A privilege bitset (AccessPrivileges::privileges) is the set of its bits.
PrivBits == {"SELECT", "INSERT"}
PrivSets == SUBSET PrivBits

\* DBObjectKey: (permissionType, dbId, objectId); -1 is the wildcard.
DBObjectKey(t, d, o) == [permissionType |-> t, dbId |-> d, objectId |-> o]
TableT == "table"
ViewT == "view"
\* a table, its database, and every database
KeyTable == DBObjectKey(TableT, 1, 7)
KeyDb == DBObjectKey(TableT, 1, -1)
KeyAll == DBObjectKey(TableT, -1, -1)
Keys == {KeyTable, KeyDb, KeyAll}

\* ------------------------------------------------------------- DBObject
\* DBObject::grantPrivileges / updatePrivileges: bitwise OR.
DBObject_grantPrivileges(p, q) == p \cup q
DBObject_updatePrivileges(p, q) == p \cup q
\* DBObject::revokePrivileges: bitwise AND NOT.
DBObject_revokePrivileges(p, q) == p \ q
\* DBObject::resetPrivileges
DBObject_resetPrivileges(p) == {}
\* AccessPrivileges::hasAny
hasAny(p) == p # {}

\* ------------------------------------------------------------------ maps
\* DBObjectMap = std::map<DBObjectKey, DBObject>: a function on its keys.
EmptyMap == [k \in {} |-> {}]
Has(m, k) == k \in DOMAIN m
Put(m, k, v) == [x \in (DOMAIN m) \cup {k} |-> IF x = k THEN v ELSE m[x]]
Erase(m, k) == [x \in (DOMAIN m) \ {k} |-> m[x]]
\* the bitset at k, 0 when the key is absent
Get(m, k) == IF Has(m, k) THEN m[k] ELSE {}

VARIABLES
  alive,                \* the grantees that are constructed and not destroyed
  roles,                \* Grantee::roles_
  grantees,             \* Role::grantees_ (empty for a user)
  directPrivileges,     \* Grantee::directPrivileges_
  effectivePrivileges,  \* Grantee::effectivePrivileges_
  err,                  \* what the last call threw ("" when it returned)
  last                  \* the last call: its name and what it returned

\* The lock guards of Catalog/RWLocks.h over the catalogs of one type.
VARIABLES
  sharedMutex_,                \* per catalog: who holds it exclusively, who shared
  sqliteMutex_,                \* per catalog: the thread that holds the std::mutex
  thread_holding_write_lock,   \* per catalog: the owner field write_lock sets
  thread_holding_sqlite_lock,  \* per catalog: the owner field sqlite_lock sets
  thread_holds_read_lock,      \* per thread: the static thread_local flag of the type
  guards                       \* per thread: its guard objects, innermost last

\* One import of ImportExport/ForeignDataImporter.cpp.
VARIABLES
  table_,          \* persistenceLevel of the table and copy_params_.max_reject
  import_status,   \* rows_completed, rows_rejected, load_failed
  source,          \* the batches getNextImportBatch has still to hand out
  worker,          \* per worker thread: where it is in its loop, and its batch
  importer,        \* the importing thread: where it is, the dictionaries left
  connector,       \* the calls made on connector_ for the table, in order
  inserted         \* the batches insertData was called with, in order

\* One buffer pool of DataMgr (MemoryInfo and its MemoryData records).
VARIABLES
  nodeMemoryData,      \* per chunk key: numPages, touch, memStatus, pinCount
  isAllocationCapped,  \* MemoryInfo::isAllocationCapped
  touchCounter,        \* the pool's counter that stamps MemoryData::touch
  pool_last            \* the last call on the pool: its name, key and result

graphVars == <<alive, roles, grantees, directPrivileges, effectivePrivileges, err, last>>
lockVars == <<sharedMutex_, sqliteMutex_, thread_holding_write_lock,
              thread_holding_sqlite_lock, thread_holds_read_lock, guards>>
importVars ==
  <<table_, import_status, source, worker, importer, connector, inserted>>
poolVars == <<nodeMemoryData, isAllocationCapped, touchCounter, pool_last>>
vars == <<graphVars, lockVars, importVars, poolVars>>

\* The graph state the member functions work on.
State == [roles |-> roles, grantees |-> grantees, direct |-> directPrivileges,
          eff |-> effectivePrivileges, err |-> ""]

NoError == ""
Throw(S, e) == [S EXCEPT !.err = e]

\* Grantee::getDbObjects
getDbObjects(S, g, only_direct) == IF only_direct THEN S.direct[g] ELSE S.eff[g]

\* Grantee::findDbObject: whether the map selected holds the key
findDbObject(S, g, key, only_direct) == Has(getDbObjects(S, g, only_direct), key)

\* ------------------------------------------------------ updatePrivileges
\* Grantee::updatePrivileges(Role*): OR the role's effective entries, by key,
\* into the effective map e, inserting a copy where e has no entry.
updatePrivilegesFromRole(e, roleEff) ==
  [k \in (DOMAIN e) \cup (DOMAIN roleEff) |->
     IF Has(roleEff, k)
     THEN IF Has(e, k) THEN DBObject_updatePrivileges(e[k], roleEff[k])
                        ELSE roleEff[k]
     ELSE e[k]]

\* the loop over roles_ (lines 314-318)
RECURSIVE pullFromRoles(_, _, _)
pullFromRoles(S, e, todo) ==
  IF todo = {} THEN e
  ELSE LET role == CHOOSE r \in todo : TRUE
           e2 == IF DOMAIN getDbObjects(S, role, FALSE) # {}
                 THEN updatePrivilegesFromRole(e, getDbObjects(S, role, FALSE))
                 ELSE e
       IN pullFromRoles(S, e2, todo \ {role})

\* step 1: reset every effective entry in place
resetEffective(e) == [k \in DOMAIN e |-> DBObject_resetPrivileges(e[k])]

\* mutant: the direct entries are not pulled in
pullFromDirect_skip(e, d) == e

\* step 2: OR in the direct entries whose key the effective map holds
pullFromDirect(e, d) ==
  [k \in DOMAIN e |-> IF Has(d, k) THEN DBObject_updatePrivileges(e[k], d[k]) ELSE e[k]]

\* mutant: the entries left empty are kept
eraseEmpty_keep(e) == e

\* step 4: erase the entries left empty
eraseEmpty(e) == [k \in {x \in DOMAIN e : hasAny(e[x])} |-> e[k]]

\* Grantee::updatePrivileges()
Grantee_updatePrivileges(S, g) ==
  LET e1 == resetEffective(S.eff[g])
      e2 == pullFromDirect(e1, S.direct[g])
      e3 == pullFromRoles(S, e2, S.roles[g])
      e4 == eraseEmpty(e3)
  IN [S EXCEPT !.eff[g] = e4]

\* The depth of nested calls a walk down grantees_ can reach on an acyclic
\* graph; a deeper call means the recursion does not end.
MaxDepth == Cardinality(Grantees)
Diverged == "diverged"

\* mutant: Role::updatePrivileges recomputes the role and pushes to no grantee
updatePrivileges_noPush(S, g, depth) == {Grantee_updatePrivileges(S, g)}

\* Role::updatePrivileges() / the virtual call grantee->updatePrivileges():
\* the states the call can return, one per iteration order of grantees_.
RECURSIVE updatePrivileges(_, _, _)
RECURSIVE pushToGrantees(_, _, _)
updatePrivileges(S, g, depth) ==
  IF depth > MaxDepth THEN {Throw(S, Diverged)}
  ELSE IF isUser(g) THEN {Grantee_updatePrivileges(S, g)}
  ELSE pushToGrantees(Grantee_updatePrivileges(S, g), S.grantees[g], depth)

pushToGrantees(S, todo, depth) ==
  IF todo = {} \/ S.err # NoError THEN {S}
  ELSE UNION {UNION {pushToGrantees(S2, todo \ {x}, depth) :
                        S2 \in updatePrivileges(S, x, depth + 1)} : x \in todo}

\* ------------------------------------------------------- grantPrivileges
\* mutant: the object replaces the entry that is there
grantInto_replace(m, key, privs) == Put(m, key, privs)

\* lines 124-135: OR the object into the effective and the direct entry,
\* creating the entry that is missing
grantInto(m, key, privs) ==
  IF ~Has(m, key) THEN Put(m, key, privs)
  ELSE Put(m, key, DBObject_grantPrivileges(m[key], privs))

\* Grantee::grantPrivileges
grantPrivileges(S, g, key, privs) ==
  LET S1 == [S EXCEPT !.eff[g] = grantInto(@, key, privs),
                      !.direct[g] = grantInto(@, key, privs)]
  IN updatePrivileges(S1, g, 1)

\* ------------------------------------------------------ revokePrivileges
NoPrivileges == "has no privileges"

\* lines 168-174: take the bits out of the cached effective entry
revokeFromCached(e, key, privs) ==
  IF Has(e, key) /\ hasAny(e[key])
  THEN LET left == DBObject_revokePrivileges(e[key], privs)
       IN IF ~hasAny(left) THEN Erase(e, key) ELSE Put(e, key, left)
  ELSE e

\* mutant: the direct entry is kept when its last bit is revoked
revokeFromDirect_keep(d, key, privs) ==
  Put(d, key, DBObject_revokePrivileges(d[key], privs))

\* lines 161-166: take the bits out of the direct entry and erase it when
\* nothing is left
revokeFromDirect(d, key, privs) ==
  LET left == DBObject_revokePrivileges(d[key], privs)
  IN IF ~hasAny(left) THEN Erase(d, key) ELSE Put(d, key, left)

\* mutant: only a missing entry is refused, an entry without bits is not
revokePrivileges_foundOnly(S, g, key, privs) ==
  IF ~findDbObject(S, g, key, TRUE)
  THEN {Throw(S, NoPrivileges)}
  ELSE LET S1 == [S EXCEPT !.direct[g] = revokeFromDirect(@, key, privs)]
           S2 == [S1 EXCEPT !.eff[g] = revokeFromCached(@, key, privs)]
       IN updatePrivileges(S2, g, 1)

\* Grantee::revokePrivileges
revokePrivileges(S, g, key, privs) ==
  IF ~findDbObject(S, g, key, TRUE) \/ ~hasAny(S.direct[g][key])
  THEN {Throw(S, NoPrivileges)}
  ELSE LET S1 == [S EXCEPT !.direct[g] = revokeFromDirect(@, key, privs)]
           S2 == [S1 EXCEPT !.eff[g] = revokeFromCached(@, key, privs)]
       IN updatePrivileges(S2, g, 1)

\* what revokePrivileges returns: nullptr ("removed") when the direct entry was
\* erased, the changed object otherwise
revokePrivilegesResult(S, g, key, privs) ==
  IF ~hasAny(DBObject_revokePrivileges(S.direct[g][key], privs))
  THEN "nullptr" ELSE "object"

\* ----------------------------------------------------------- checkCycles
CycleError == "creates cycle"
AlreadyGranted == "have been granted already"
NotGranted == "have not been granted"

\* the orders in which a loop can visit the elements of an unordered_set
RECURSIVE Orders(_)
Orders(s) ==
  IF s = {} THEN {<<>>}
  ELSE UNION {{<<x>> \o t : t \in Orders(s \ {x})} : x \in s}

\* The number of pops the walk can make on an acyclic graph is at most the
\* number of paths that leave a node; more pops mean the loop does not end.
MaxWalk == 2 ^ Cardinality(Grantees)

\* the while loop of Grantee::checkCycles: the outcomes of the walk from the
\* stack given (its top is its last element)
RECURSIVE walkGrantees(_, _, _, _)
walkGrantees(S, stack, newRole, fuel) ==
  IF stack = <<>> THEN {NoError}
  ELSE IF fuel = 0 THEN {Diverged}
  ELSE LET grantee == stack[Len(stack)]
           popped == SubSeq(stack, 1, Len(stack) - 1)
       IN IF isUser(grantee) THEN walkGrantees(S, popped, newRole, fuel - 1)
          ELSE IF grantee = newRole THEN {CycleError}
          ELSE UNION {walkGrantees(S, popped \o pushed, newRole, fuel - 1) :
                        pushed \in Orders(S.grantees[grantee])}

\* mutant: no grant is refused for closing a cycle
checkCycles_noWalk(S, g, newRole) == {NoError}

\* mutant: the walk is left out and only the grantee itself is compared
checkCycles_selfOnly(S, g, newRole) ==
  IF g = newRole THEN {CycleError} ELSE {NoError}

\* mutant: the walk stops at the direct grantees of the grantee
checkCycles_oneLevel(S, g, newRole) ==
  IF ~isUser(g) /\ (g = newRole \/ newRole \in S.grantees[g])
  THEN {CycleError} ELSE {NoError}

\* Grantee::checkCycles
checkCycles(S, g, newRole) == walkGrantees(S, <<g>>, newRole, MaxWalk)

\* ------------------------------------------------- grantRole, revokeRole
\* mutant: the grantee is not inserted
addGrantee_skip(S, role, grantee) == S

\* Role::addGrantee
addGrantee(S, role, grantee) ==
  IF grantee \notin S.grantees[role]
  THEN [S EXCEPT !.grantees[role] = @ \cup {grantee}]
  ELSE Throw(S, AlreadyGranted)

\* mutant: a grantee that is not there is erased without an error
removeGrantee_silent(S, role, grantee) ==
  [S EXCEPT !.grantees[role] = @ \ {grantee}]

\* mutant: the grantee is looked up and not erased
removeGrantee_keep(S, role, grantee) ==
  IF grantee \in S.grantees[role] THEN S ELSE Throw(S, NotGranted)

\* Role::removeGrantee
removeGrantee(S, role, grantee) ==
  IF grantee \in S.grantees[role]
  THEN [S EXCEPT !.grantees[role] = @ \ {grantee}]
  ELSE Throw(S, NotGranted)

\* lines 201-204 of Grantee::grantRole: the edge and the recomputation
insertRole(S, g, role) ==
  LET S1 == [S EXCEPT !.roles[g] = @ \cup {role}]
      S2 == addGrantee(S1, role, g)
  IN IF S2.err # NoError THEN {S2} ELSE updatePrivileges(S2, g, 1)

\* mutant: a role already granted is accepted without an error
grantRole_silent(S, g, role) ==
  IF role \in S.roles[g] THEN {S}
  ELSE UNION {IF c = NoError THEN insertRole(S, g, role) ELSE {Throw(S, c)} :
                c \in checkCycles(S, g, role)}

\* Grantee::grantRole
grantRole(S, g, role) ==
  IF role \in S.roles[g] THEN {Throw(S, AlreadyGranted)}
  ELSE UNION {IF c = NoError THEN insertRole(S, g, role) ELSE {Throw(S, c)} :
                c \in checkCycles(S, g, role)}

\* mutant: the edge is removed and the effective privileges are not recomputed
revokeRole_stale(S, g, role) ==
  LET S1 == [S EXCEPT !.roles[g] = @ \ {role}]
  IN {removeGrantee(S1, role, g)}

\* Grantee::revokeRole
revokeRole(S, g, role) ==
  LET S1 == [S EXCEPT !.roles[g] = @ \ {role}]
      S2 == removeGrantee(S1, role, g)
  IN IF S2.err # NoError THEN {S2} ELSE updatePrivileges(S2, g, 1)

\* --------------------------------------------------- revokeAllOnDatabase
\* the erase loop of Grantee::revokeAllOnDatabase over one map
eraseDatabase(m, dbId) == [k \in {x \in DOMAIN m : x.dbId # dbId} |-> m[k]]

\* Grantee::revokeAllOnDatabase
Grantee_revokeAllOnDatabase(S, g, dbId) ==
  LET S1 == [S EXCEPT !.eff[g] = eraseDatabase(@, dbId),
                      !.direct[g] = eraseDatabase(@, dbId)]
  IN updatePrivileges(S1, g, 1)

\* mutant: a role revokes on itself and on none of its grantees
revokeAllOnDatabase_self(S, g, dbId, depth) == Grantee_revokeAllOnDatabase(S, g, dbId)

\* Role::revokeAllOnDatabase / the virtual call grantee->revokeAllOnDatabase
RECURSIVE revokeAllOnDatabase(_, _, _, _)
RECURSIVE revokeAllOnGrantees(_, _, _, _)
revokeAllOnDatabase(S, g, dbId, depth) ==
  IF depth > MaxDepth THEN {Throw(S, Diverged)}
  ELSE IF isUser(g) THEN Grantee_revokeAllOnDatabase(S, g, dbId)
  ELSE UNION {revokeAllOnGrantees(S1, S1.grantees[g], dbId, depth) :
                S1 \in Grantee_revokeAllOnDatabase(S, g, dbId)}

revokeAllOnGrantees(S, todo, dbId, depth) ==
  IF todo = {} \/ S.err # NoError THEN {S}
  ELSE UNION {UNION {revokeAllOnGrantees(S2, todo \ {x}, dbId, depth) :
                        S2 \in revokeAllOnDatabase(S, x, dbId, depth + 1)} : x \in todo}

\* ------------------------------------------------------------ destructors
Terminated == "terminate"

\* the loop of Grantee::~Grantee: role->removeGrantee(this) for every role; an
\* exception that leaves a destructor ends the process
RECURSIVE detachFromRoles(_, _, _)
detachFromRoles(S, g, todo) ==
  IF todo = {} THEN S
  ELSE LET role == CHOOSE r \in todo : TRUE
           S1 == removeGrantee(S, role, g)
       IN IF S1.err # NoError THEN Throw(S1, Terminated)
          ELSE detachFromRoles(S1, g, todo \ {role})

\* Grantee::~Grantee
Grantee_destroy(S, g) ==
  LET S1 == detachFromRoles(S, g, S.roles[g])
  IN IF S1.err # NoError THEN S1
     ELSE [S1 EXCEPT !.eff[g] = EmptyMap, !.direct[g] = EmptyMap, !.roles[g] = {}]

\* the loop of Role::~Role: current_grantee->revokeRole(this) for every grantee
RECURSIVE revokeFromGrantees(_, _, _)
revokeFromGrantees(S, role, todo) ==
  IF todo = {} \/ S.err # NoError THEN {S}
  ELSE UNION {UNION {revokeFromGrantees(S2, role, todo \ {x}) :
                        S2 \in revokeRole(S, x, role)} : x \in todo}

\* mutant: the grantees of the role are not told
Role_destroy_noRevoke(S, role) ==
  {Grantee_destroy([S EXCEPT !.grantees[role] = {}], role)}

\* Role::~Role, then Grantee::~Grantee
Role_destroy(S, role) ==
  {IF S1.err # NoError THEN Throw(S1, Terminated)
   ELSE Grantee_destroy([S1 EXCEPT !.grantees[role] = {}], role) :
     S1 \in revokeFromGrantees(S, role, S.grantees[role])}

destroy(S, g) == IF isUser(g) THEN {Grantee_destroy(S, g)} ELSE Role_destroy(S, g)

\* ----------------------------------------------------------------- getRoles
\* Grantee::getName: the name of Role(i) is written i
getName(g) == g[2]

\* std::vector(roles.begin(), roles.end()) of a std::set: the names in order,
\* each once
RECURSIVE vector(_)
vector(names) ==
  IF names = {} THEN <<>>
  ELSE LET least == CHOOSE n \in names : \A m \in names : n <= m
       IN <<least>> \o vector(names \ {least})

\* what a walk that does not end is written as
NotEnded == {0}

\* the while loop of Grantee::getRoles: the name sets the walk can end with,
\* from the stack given (its top is its last element), one per push order
RECURSIVE walkRoles(_, _, _, _, _)
walkRoles(S, stack, names, only_direct, fuel) ==
  IF stack = <<>> THEN {names}
  ELSE IF fuel = 0 THEN {NotEnded}
  ELSE LET r == stack[Len(stack)]
           popped == SubSeq(stack, 1, Len(stack) - 1)
           named == names \cup {getName(x) : x \in S.roles[r]}
       IN IF only_direct THEN {named}
          ELSE UNION {walkRoles(S, popped \o pushed, named, only_direct, fuel - 1) :
                        pushed \in Orders(S.roles[r])}

\* mutant: the loop is not left after the first node
getRoles_noBreak(S, g, only_direct) ==
  {vector(n) : n \in walkRoles(S, <<g>>, {}, FALSE, MaxWalk)}

\* Grantee::getRoles
getRoles(S, g, only_direct) ==
  {vector(n) : n \in walkRoles(S, <<g>>, {}, only_direct, MaxWalk)}

\* ---------------------------------------- checkPrivileges, hasAnyPrivileges
\* mutant: one requested bit is taken for all of them
hasEnoughPrivs_anyBit(m, key, req) ==
  IF Has(m, key) THEN (m[key] \cap req) # {} ELSE FALSE

\* hasEnoughPrivs: real is the entry found (or nullptr), req the bits requested
hasEnoughPrivs(m, key, req) ==
  IF Has(m, key) THEN req = (m[key] \cap req) ELSE FALSE

\* mutant: the bits of the entry are intersected with the bits requested
hasAnyPrivs_requested(m, key, req) ==
  IF Has(m, key) THEN hasAny(m[key] \cap req) ELSE FALSE

\* hasAnyPrivs: its second parameter is unused
hasAnyPrivs(m, key, req) ==
  IF Has(m, key) THEN hasAny(m[key]) ELSE FALSE

\* lines 263-269 / 239-245: the key with its object dropped
dropObject(key) == [key EXCEPT !.objectId = -1]
\* lines 271-277 / 247-253: the key with its database dropped
dropDatabase(key) == [key EXCEPT !.dbId = -1]

\* Grantee::checkPrivileges
checkPrivileges(S, g, objectKey, req) ==
  LET m == getDbObjects(S, g, FALSE)
      k2 == IF objectKey.objectId # -1 THEN dropObject(objectKey) ELSE objectKey
      k3 == IF k2.dbId # -1 THEN dropDatabase(k2) ELSE k2
  IN IF hasEnoughPrivs(m, objectKey, req) THEN TRUE
     ELSE IF objectKey.objectId # -1 /\ hasEnoughPrivs(m, k2, req) THEN TRUE
     ELSE IF k2.dbId # -1 /\ hasEnoughPrivs(m, k3, req) THEN TRUE
     ELSE FALSE

\* Grantee::hasAnyPrivileges
hasAnyPrivileges(S, g, objectKey, req, only_direct) ==
  LET m == getDbObjects(S, g, only_direct)
      k2 == IF objectKey.objectId # -1 THEN dropObject(objectKey) ELSE objectKey
      k3 == IF k2.dbId # -1 THEN dropDatabase(k2) ELSE k2
  IN IF hasAnyPrivs(m, objectKey, req) THEN TRUE
     ELSE IF objectKey.objectId # -1 /\ hasAnyPrivs(m, k2, req) THEN TRUE
     ELSE IF k2.dbId # -1 /\ hasAnyPrivs(m, k3, req) THEN TRUE
     ELSE FALSE

\* ---------------------------------------------------------------- actions
\* ------------------------------------------------------ the lock guards
\* the guards one thread nests at most
MaxGuards == 2

Threads == {"t1", "t2"}
\* catalog instances of one type T: they share T::thread_holds_read_lock
Catalogs == {"A", "B"}
\* std::thread::id no_thread: the id of no thread
no_thread == "no_thread"

\* a guard object: its class, its catalog, its holds_lock, the holds_lock of
\* the cat_read_lock member of a sqlite_lock, and where its owner thread is in
\* its constructor or destructor ("live" between the two)
Guard(kind, cat, pc) ==
  [kind |-> kind, catalog |-> cat, holds_lock |-> FALSE, read_holds |-> FALSE, pc |-> pc]

LocksInit ==
  /\ sharedMutex_ = [c \in Catalogs |-> [writer |-> no_thread, readers |-> {}]]
  /\ sqliteMutex_ = [c \in Catalogs |-> no_thread]
  /\ thread_holding_write_lock = [c \in Catalogs |-> no_thread]
  /\ thread_holding_sqlite_lock = [c \in Catalogs |-> no_thread]
  /\ thread_holds_read_lock = [t \in Threads |-> FALSE]
  /\ guards = [t \in Threads |-> <<>>]

Top(t) == guards[t][Len(guards[t])]
\* the thread is between two statements of its own, in no constructor or
\* destructor of a guard
AtRest(t) == IF guards[t] = <<>> THEN TRUE ELSE Top(t).pc = "live"
CanNest(t) == AtRest(t) /\ Len(guards[t]) < MaxGuards
Push(t, g) == guards' = [guards EXCEPT ![t] = Append(@, g)]
SetTop(t, g) == guards' = [guards EXCEPT ![t] = [@ EXCEPT ![Len(@)] = g]]
Pop(t) == guards' = [guards EXCEPT ![t] = SubSeq(@, 1, Len(@) - 1)]

\* mapd_shared_lock<mapd_shared_mutex>(m): shared access, granted while no
\* thread holds m exclusively
lock_shared(t, c) ==
  /\ sharedMutex_[c].writer = no_thread
  /\ sharedMutex_' = [sharedMutex_ EXCEPT ![c].readers = @ \cup {t}]
unlock_shared(t, c) ==
  sharedMutex_' = [sharedMutex_ EXCEPT ![c].readers = @ \ {t}]

\* mapd_unique_lock<mapd_shared_mutex>(m): exclusive access, granted while no
\* thread holds m in either mode
lock_unique(t, c) ==
  /\ sharedMutex_[c].writer = no_thread /\ sharedMutex_[c].readers = {}
  /\ sharedMutex_' = [sharedMutex_ EXCEPT ![c].writer = t]
unlock_unique(t, c) ==
  sharedMutex_' = [sharedMutex_ EXCEPT ![c].writer = no_thread]

\* mutant: the thread-local flag is not looked at
read_lock_needed_noFlag(t, c) == thread_holding_write_lock[c] # t

\* the condition of read_lock::lock_catalog
read_lock_needed(t, c) ==
  thread_holding_write_lock[c] # t /\ ~thread_holds_read_lock[t]

\* mutant: a thread with shared access is taken to hold the lock already
write_lock_needed_reader(t, c) ==
  thread_holding_write_lock[c] # t /\ t \notin sharedMutex_[c].readers

\* the condition of write_lock::lock_catalog
write_lock_needed(t, c) == thread_holding_write_lock[c] # t

\* the condition of sqlite_lock::lock_catalog
sqlite_lock_needed(t, c) == thread_holding_sqlite_lock[c] # t

\* -------------------------------------------------------- the import
\* the batches the file holds
NumBatches == 2
\* the string dictionaries of the table
NumDicts == 1

\* the threads of lines 131-158 (num_outer_thread of them)
Workers == {"w1", "w2"}
\* rows_completed and rows_rejected of one batch
BatchRows == {0, 1}
\* batch_result->getInsertData() of the result handed out once the file is
\* exhausted
NoBatch == [insert_data |-> FALSE, rows_completed |-> 0, rows_rejected |-> 0]

\* the tables and copy parameters an import may be started with
Tables ==
  [persistenceLevel : {"DISK_LEVEL", "CPU_LEVEL"}, max_reject : {0, 1}]

\* lines 121-122 and the start of the workers
ImportInit(tables) ==
  /\ table_ \in tables
  /\ import_status = [rows_completed |-> 0, rows_rejected |-> 0, load_failed |-> FALSE]
  /\ source = NumBatches
  /\ worker = [w \in Workers |-> [pc |-> "next", batch |-> NoBatch]]
  /\ importer = [pc |-> "wait", dicts |-> NumDicts]
  /\ connector = <<>>
  /\ inserted = <<>>

\* ---------------------------------------------------- the buffer pool
\* MemoryInfo::maxNumPages of the pool explored
maxNumPages == 2
\* the stamps the counter hands out before the exploration stops
MaxTouch == 4
\* the pins one buffer collects at most
MaxPins == 1

\* MemoryData::chunk_key of the chunks a caller names
ChunkKeys == {"c1", "c2", "c3"}
\* MemoryData::numPages of a buffer
PageCounts == {1, 2}

\* Buffer_Namespace::MemStatus
MemStatus == {"FREE", "USED", "EVICTED"}

\* a MemoryData record of no buffer
FreeSlot == [numPages |-> 0, touch |-> 0, memStatus |-> "FREE", pinCount |-> 0]

PoolInit ==
  /\ nodeMemoryData = [c \in ChunkKeys |-> FreeSlot]
  /\ isAllocationCapped = FALSE
  /\ touchCounter = 0
  /\ pool_last = [op |-> "BufferMgr", chunk_key |-> "", ret |-> ""]

RECURSIVE sumPages(_, _)
sumPages(m, todo) ==
  IF todo = {} THEN 0
  ELSE LET c == CHOOSE x \in todo : TRUE
       IN m[c].numPages + sumPages(m, todo \ {c})

Used(m) == {c \in ChunkKeys : m[c].memStatus = "USED"}

\* MemoryInfo::numPageAllocated
numPageAllocated(m) == sumPages(m, Used(m))

\* the buffers eviction may take
Evictable(m) == {c \in Used(m) : m[c].pinCount = 0}

\* mutant: the coldest buffer is taken whether it is pinned or not
victim_pinned(m) ==
  CHOOSE c \in Used(m) : \A d \in Used(m) : m[c].touch <= m[d].touch

\* the LRU victim: minimum touch where pinCount == 0 and status == USED
victim(m) ==
  CHOOSE c \in Evictable(m) : \A d \in Evictable(m) : m[c].touch <= m[d].touch

\* USED -> EVICTED: the pages go back to the pool, the record is retained
evict(m, c) == [m EXCEPT ![c].memStatus = "EVICTED"]

\* allocation on a miss: evict the coldest unpinned buffers, in the order of
\* their touch, until n pages are free or none is left to evict
RECURSIVE evictFor(_, _)
evictFor(m, n) ==
  IF maxNumPages - numPageAllocated(m) >= n \/ Evictable(m) = {} THEN m
  ELSE evictFor(evict(m, victim(m)), n)

\* The calls a catalog makes are drawn from a universe U: the grantees that
\* exist (U.G), the objects granted and revoked (U.objects, each a grantee, a
\* key and a bitset), the objects asked about (U.requests) and the databases
\* dropped (U.dbs).
GraphInit(U) ==
  /\ alive = U.G
  /\ roles = [g \in Grantees |-> {}]
  /\ grantees = [g \in Grantees |-> {}]
  /\ directPrivileges = [g \in Grantees |-> EmptyMap]
  /\ effectivePrivileges = [g \in Grantees |-> EmptyMap]
  /\ err = NoError
  /\ last = [op |-> "Grantee", ret |-> ""]

\* the catalog with no guard taken and an import not yet run
InitOf(U) ==
  /\ GraphInit(U)
  /\ LocksInit
  /\ PoolInit
  /\ ImportInit({[persistenceLevel |-> "DISK_LEVEL", max_reject |-> 0]})

Returns(S) ==
  /\ roles' = S.roles
  /\ grantees' = S.grantees
  /\ directPrivileges' = S.direct
  /\ effectivePrivileges' = S.eff
  /\ err' = S.err

\* a call that did not return leaves no caller to make the next one
Running == err \notin {Diverged, Terminated}

\* a call on the privilege graph: the guards and the import are left as they
\* are
Call(op, ret) ==
  /\ last' = [op |-> op, ret |-> ret]
  /\ UNCHANGED <<lockVars, importVars, poolVars>>

GrantPrivileges(U) ==
  \E o \in U.objects :
    /\ Running /\ o[1] \in alive
    /\ \E S \in grantPrivileges(State, o[1], o[2], o[3]) : Returns(S)
    /\ Call("grantPrivileges", "")
    /\ UNCHANGED alive

RevokePrivileges(U) ==
  \E o \in U.objects :
    /\ Running /\ o[1] \in alive
    /\ \E S \in revokePrivileges(State, o[1], o[2], o[3]) :
         /\ Returns(S)
         /\ Call("revokePrivileges",
                 IF S.err # NoError THEN ""
                 ELSE revokePrivilegesResult(State, o[1], o[2], o[3]))
    /\ UNCHANGED alive

GrantRole(U) ==
  \E g \in alive, role \in alive \cap Roles :
    /\ Running
    /\ \E S \in grantRole(State, g, role) : Returns(S)
    /\ Call("grantRole", "")
    /\ UNCHANGED alive

RevokeRole(U) ==
  \E g \in alive, role \in alive \cap Roles :
    /\ Running
    /\ \E S \in revokeRole(State, g, role) : Returns(S)
    /\ Call("revokeRole", "")
    /\ UNCHANGED alive

RevokeAllOnDatabase(U) ==
  \E g \in alive, dbId \in U.dbs :
    /\ Running
    /\ \E S \in revokeAllOnDatabase(State, g, dbId, 1) : Returns(S)
    /\ Call("revokeAllOnDatabase", "")
    /\ UNCHANGED alive

Destroy(U) ==
  \E g \in alive :
    /\ Running
    /\ \E S \in destroy(State, g) : Returns(S)
    /\ Call("destroy", "")
    /\ alive' = alive \ {g}

CheckPrivileges(U) ==
  \E g \in alive, q \in U.requests :
    /\ Running
    /\ Call("checkPrivileges", checkPrivileges(State, g, q[1], q[2]))
    /\ err' = NoError
    /\ UNCHANGED <<alive, roles, grantees, directPrivileges, effectivePrivileges>>

HasAnyPrivileges(U) ==
  \E g \in alive, q \in U.requests, only_direct \in BOOLEAN :
    /\ Running
    /\ Call("hasAnyPrivileges", hasAnyPrivileges(State, g, q[1], q[2], only_direct))
    /\ err' = NoError
    /\ UNCHANGED <<alive, roles, grantees, directPrivileges, effectivePrivileges>>

GetRoles(U) ==
  \E g \in alive, only_direct \in BOOLEAN :
    /\ Running
    /\ \E v \in getRoles(State, g, only_direct) :
         Call("getRoles", [grantee |-> g, only_direct |-> only_direct, names |-> v])
    /\ err' = NoError
    /\ UNCHANGED <<alive, roles, grantees, directPrivileges, effectivePrivileges>>

\* ------------------------------------------------------------ universes
\* every role and the user, one object: the role graph with its propagation
GraphUniverse ==
  [G |-> {Role(1), Role(2), Role(3), User(1)},
   objects |-> {<<g, KeyDb, {"SELECT"}>> : g \in {Role(1), Role(2), Role(3), User(1)}},
   requests |-> {},
   dbs |-> {1}]

Init == InitOf(GraphUniverse)
Next ==
  \/ GrantPrivileges(GraphUniverse)
  \/ RevokePrivileges(GraphUniverse)
  \/ GrantRole(GraphUniverse)
  \/ RevokeRole(GraphUniverse)
  \/ RevokeAllOnDatabase(GraphUniverse)
  \/ Destroy(GraphUniverse)
Spec == Init /\ [][Next]_vars

\* the role graph alone, on NumRoles roles: no object is ever granted
RolesUniverse == [G |-> Grantees, objects |-> {}, requests |-> {}, dbs |-> {}]

InitRoles == InitOf(RolesUniverse)
NextRoles ==
  \/ GrantRole(RolesUniverse)
  \/ RevokeRole(RolesUniverse)
  \/ Destroy(RolesUniverse)
SpecRoles == InitRoles /\ [][NextRoles]_vars

\* three roles and a user, no object: the role graph and the questions about it
NamesUniverse ==
  [G |-> {Role(1), Role(2), Role(3), User(1)}, objects |-> {}, requests |-> {},
   dbs |-> {}]

InitNames == InitOf(NamesUniverse)
NextNames ==
  \/ GrantRole(NamesUniverse)
  \/ RevokeRole(NamesUniverse)
  \/ Destroy(NamesUniverse)
  \/ GetRoles(NamesUniverse)
SpecNames == InitNames /\ [][NextNames]_vars

\* two roles and a user, the three keys of a widening sequence, two bits
PrivUniverse ==
  [G |-> {Role(1), Role(2), User(1)},
   objects |-> {<<User(1), KeyTable, p>> : p \in PrivSets \ {{}}}
               \cup {<<User(1), k, {"INSERT"}>> : k \in {KeyDb, KeyAll}}
               \cup {<<Role(2), KeyDb, p>> : p \in {{}, {"SELECT"}}},
   requests |-> {<<KeyTable, {"SELECT"}>>},
   dbs |-> {1}]

InitPriv == InitOf(PrivUniverse)
NextPriv ==
  \/ GrantPrivileges(PrivUniverse)
  \/ RevokePrivileges(PrivUniverse)
  \/ GrantRole(PrivUniverse)
  \/ RevokeRole(PrivUniverse)
  \/ RevokeAllOnDatabase(PrivUniverse)
  \/ Destroy(PrivUniverse)
  \/ CheckPrivileges(PrivUniverse)
  \/ HasAnyPrivileges(PrivUniverse)
SpecPriv == InitPriv /\ [][NextPriv]_vars

\* ------------------------------------------- the guards, step by step
\* Each action is one step of one thread: a statement that reads or writes a
\* field other threads read (an owner field) or that takes or releases a
\* mutex.  What a thread does to its own guard and to its own thread-local
\* flag is folded into the step before it.  A guard is destroyed where its
\* scope ends: the innermost first.

\* read_lock(cat): lock_catalog decides; the guard waits for shared access or
\* is complete at once
ReadLock ==
  \E t \in Threads, c \in Catalogs :
    /\ CanNest(t)
    /\ Push(t, Guard("read_lock", c, IF read_lock_needed(t, c) THEN "lock" ELSE "live"))
    /\ UNCHANGED <<sharedMutex_, sqliteMutex_, thread_holding_write_lock,
                   thread_holding_sqlite_lock, thread_holds_read_lock, graphVars, importVars, poolVars>>

\* lines 48-50: shared access obtained, the flag and holds_lock set
ReadLockAcquire ==
  \E t \in Threads :
    /\ guards[t] # <<>> /\ Top(t).kind = "read_lock" /\ Top(t).pc = "lock"
    /\ lock_shared(t, Top(t).catalog)
    /\ thread_holds_read_lock' = [thread_holds_read_lock EXCEPT ![t] = TRUE]
    /\ SetTop(t, [Top(t) EXCEPT !.holds_lock = TRUE, !.pc = "live"])
    /\ UNCHANGED <<sqliteMutex_, thread_holding_write_lock,
                   thread_holding_sqlite_lock, graphVars, importVars, poolVars>>

\* ~read_lock -> read_lock::unlock
ReadUnlock ==
  \E t \in Threads :
    /\ guards[t] # <<>> /\ Top(t).kind = "read_lock" /\ Top(t).pc = "live"
    /\ IF Top(t).holds_lock
       THEN /\ thread_holds_read_lock' = [thread_holds_read_lock EXCEPT ![t] = FALSE]
            /\ unlock_shared(t, Top(t).catalog)
       ELSE UNCHANGED <<thread_holds_read_lock, sharedMutex_>>
    /\ Pop(t)
    /\ UNCHANGED <<sqliteMutex_, thread_holding_write_lock,
                   thread_holding_sqlite_lock, graphVars, importVars, poolVars>>

\* write_lock(cat): lock_catalog decides
WriteLock ==
  \E t \in Threads, c \in Catalogs :
    /\ CanNest(t)
    /\ Push(t, Guard("write_lock", c, IF write_lock_needed(t, c) THEN "lock" ELSE "live"))
    /\ UNCHANGED <<sharedMutex_, sqliteMutex_, thread_holding_write_lock,
                   thread_holding_sqlite_lock, thread_holds_read_lock, graphVars, importVars, poolVars>>

\* line 125: exclusive access obtained
WriteLockAcquire ==
  \E t \in Threads :
    /\ guards[t] # <<>> /\ Top(t).kind = "write_lock" /\ Top(t).pc = "lock"
    /\ lock_unique(t, Top(t).catalog)
    /\ SetTop(t, [Top(t) EXCEPT !.pc = "owner"])
    /\ UNCHANGED <<sqliteMutex_, thread_holding_write_lock,
                   thread_holding_sqlite_lock, thread_holds_read_lock, graphVars, importVars, poolVars>>

\* lines 126-127: the owner field and holds_lock set
WriteLockOwner ==
  \E t \in Threads :
    /\ guards[t] # <<>> /\ Top(t).kind = "write_lock" /\ Top(t).pc = "owner"
    /\ thread_holding_write_lock' =
         [thread_holding_write_lock EXCEPT ![Top(t).catalog] = t]
    /\ SetTop(t, [Top(t) EXCEPT !.holds_lock = TRUE, !.pc = "live"])
    /\ UNCHANGED <<sharedMutex_, sqliteMutex_, thread_holding_sqlite_lock,
                   thread_holds_read_lock, graphVars, importVars, poolVars>>

\* mutant: the owner field is left as it is when the guard lets go
WriteUnlock_keepOwner ==
  \E t \in Threads :
    /\ guards[t] # <<>> /\ Top(t).kind = "write_lock" /\ Top(t).pc = "live"
    /\ IF Top(t).holds_lock
       THEN SetTop(t, [Top(t) EXCEPT !.pc = "unlock"])
       ELSE Pop(t)
    /\ UNCHANGED <<sharedMutex_, sqliteMutex_, thread_holding_write_lock,
                   thread_holding_sqlite_lock, thread_holds_read_lock, graphVars, importVars, poolVars>>

\* ~write_lock -> write_lock::unlock, lines 137-139: the owner field cleared
\* (a guard that holds nothing is gone at once)
WriteUnlock ==
  \E t \in Threads :
    /\ guards[t] # <<>> /\ Top(t).kind = "write_lock" /\ Top(t).pc = "live"
    /\ IF Top(t).holds_lock
       THEN /\ thread_holding_write_lock' =
                 [thread_holding_write_lock EXCEPT ![Top(t).catalog] = no_thread]
            /\ SetTop(t, [Top(t) EXCEPT !.pc = "unlock"])
       ELSE Pop(t) /\ UNCHANGED thread_holding_write_lock
    /\ UNCHANGED <<sharedMutex_, sqliteMutex_, thread_holding_sqlite_lock,
                   thread_holds_read_lock, graphVars, importVars, poolVars>>

\* lines 140-141: lock.unlock()
WriteRelease ==
  \E t \in Threads :
    /\ guards[t] # <<>> /\ Top(t).kind = "write_lock" /\ Top(t).pc = "unlock"
    /\ unlock_unique(t, Top(t).catalog)
    /\ Pop(t)
    /\ UNCHANGED <<sqliteMutex_, thread_holding_write_lock,
                   thread_holding_sqlite_lock, thread_holds_read_lock, graphVars, importVars, poolVars>>

\* where the constructor of a sqlite_lock is once its cat_read_lock member is
\* constructed: lock_catalog decides
sqlite_after_read(t, c) == IF sqlite_lock_needed(t, c) THEN "lock" ELSE "live"

\* read_lock::unlock of the member cat_read_lock of the guard g of thread t
cat_read_lock_unlock(t, g) ==
  IF g.read_holds
  THEN /\ thread_holds_read_lock' = [thread_holds_read_lock EXCEPT ![t] = FALSE]
       /\ unlock_shared(t, g.catalog)
  ELSE UNCHANGED <<thread_holds_read_lock, sharedMutex_>>

\* sqlite_lock(cat): the member cat_read_lock(cat) is constructed first
SqliteLock ==
  \E t \in Threads, c \in Catalogs :
    /\ CanNest(t)
    /\ Push(t, Guard("sqlite_lock", c,
                     IF read_lock_needed(t, c) THEN "read" ELSE sqlite_after_read(t, c)))
    /\ UNCHANGED <<sharedMutex_, sqliteMutex_, thread_holding_write_lock,
                   thread_holding_sqlite_lock, thread_holds_read_lock, graphVars, importVars, poolVars>>

\* the member cat_read_lock obtains shared access
SqliteReadAcquire ==
  \E t \in Threads :
    /\ guards[t] # <<>> /\ Top(t).kind = "sqlite_lock" /\ Top(t).pc = "read"
    /\ lock_shared(t, Top(t).catalog)
    /\ thread_holds_read_lock' = [thread_holds_read_lock EXCEPT ![t] = TRUE]
    /\ SetTop(t, [Top(t) EXCEPT !.read_holds = TRUE,
                                !.pc = sqlite_after_read(t, Top(t).catalog)])
    /\ UNCHANGED <<sqliteMutex_, thread_holding_write_lock,
                   thread_holding_sqlite_lock, graphVars, importVars, poolVars>>

\* line 88: std::unique_lock<std::mutex>(cat->sqliteMutex_)
SqliteLockAcquire ==
  \E t \in Threads :
    /\ guards[t] # <<>> /\ Top(t).kind = "sqlite_lock" /\ Top(t).pc = "lock"
    /\ sqliteMutex_[Top(t).catalog] = no_thread
    /\ sqliteMutex_' = [sqliteMutex_ EXCEPT ![Top(t).catalog] = t]
    /\ SetTop(t, [Top(t) EXCEPT !.pc = "owner"])
    /\ UNCHANGED <<sharedMutex_, thread_holding_write_lock,
                   thread_holding_sqlite_lock, thread_holds_read_lock, graphVars, importVars, poolVars>>

\* lines 89-90: the owner field and holds_lock set
SqliteLockOwner ==
  \E t \in Threads :
    /\ guards[t] # <<>> /\ Top(t).kind = "sqlite_lock" /\ Top(t).pc = "owner"
    /\ thread_holding_sqlite_lock' =
         [thread_holding_sqlite_lock EXCEPT ![Top(t).catalog] = t]
    /\ SetTop(t, [Top(t) EXCEPT !.holds_lock = TRUE, !.pc = "live"])
    /\ UNCHANGED <<sharedMutex_, sqliteMutex_, thread_holding_write_lock,
                   thread_holds_read_lock, graphVars, importVars, poolVars>>

\* ~sqlite_lock -> sqlite_lock::unlock, lines 102-104: the owner field
\* cleared; a guard that did not take the mutex goes on to ~read_lock of its
\* member
SqliteUnlock ==
  \E t \in Threads :
    /\ guards[t] # <<>> /\ Top(t).kind = "sqlite_lock" /\ Top(t).pc = "live"
    /\ IF Top(t).holds_lock
       THEN /\ thread_holding_sqlite_lock' =
                 [thread_holding_sqlite_lock EXCEPT ![Top(t).catalog] = no_thread]
            /\ SetTop(t, [Top(t) EXCEPT !.pc = "unlock"])
            /\ UNCHANGED <<thread_holds_read_lock, sharedMutex_>>
       ELSE /\ cat_read_lock_unlock(t, Top(t))
            /\ Pop(t)
            /\ UNCHANGED thread_holding_sqlite_lock
    /\ UNCHANGED <<sqliteMutex_, thread_holding_write_lock, graphVars, importVars, poolVars>>

\* line 105: lock.unlock()
SqliteRelease ==
  \E t \in Threads :
    /\ guards[t] # <<>> /\ Top(t).kind = "sqlite_lock" /\ Top(t).pc = "unlock"
    /\ sqliteMutex_' = [sqliteMutex_ EXCEPT ![Top(t).catalog] = no_thread]
    /\ SetTop(t, [Top(t) EXCEPT !.pc = "unread"])
    /\ UNCHANGED <<sharedMutex_, thread_holding_write_lock,
                   thread_holding_sqlite_lock, thread_holds_read_lock, graphVars, importVars, poolVars>>

\* lines 106-107: cat_read_lock.unlock(), after which ~read_lock finds
\* nothing held
SqliteReadUnlock ==
  \E t \in Threads :
    /\ guards[t] # <<>> /\ Top(t).kind = "sqlite_lock" /\ Top(t).pc = "unread"
    /\ cat_read_lock_unlock(t, Top(t))
    /\ Pop(t)
    /\ UNCHANGED <<sqliteMutex_, thread_holding_write_lock,
                   thread_holding_sqlite_lock, graphVars, importVars, poolVars>>

\* two threads nesting guards on two catalogs of one type
InitLocks == InitOf(RolesUniverse)
NextLocks ==
  \/ ReadLock \/ ReadLockAcquire \/ ReadUnlock
  \/ WriteLock \/ WriteLockAcquire \/ WriteLockOwner \/ WriteUnlock \/ WriteRelease
  \/ SqliteLock \/ SqliteReadAcquire \/ SqliteLockAcquire \/ SqliteLockOwner
  \/ SqliteUnlock \/ SqliteRelease \/ SqliteReadUnlock
SpecLocks == InitLocks /\ [][NextLocks]_vars

\* ------------------------------------------- the import, step by step
\* A worker step is a statement that reads or writes what the workers share:
\* the batch source, import_status (under import_status_mutex, shared for the
\* reads of import_failed and exclusive for the update) and the table.

\* line 134: parquet_import->getNextImportBatch()
GetNextImportBatch ==
  \E w \in Workers :
    /\ worker[w].pc = "next"
    /\ IF source > 0
       THEN /\ source' = source - 1
            /\ \E c \in BatchRows, r \in BatchRows :
                 worker' = [worker EXCEPT ![w] =
                   [pc |-> "failed1",
                    batch |-> [insert_data |-> TRUE, rows_completed |-> c,
                              rows_rejected |-> r]]]
       ELSE /\ worker' = [worker EXCEPT ![w] = [pc |-> "failed1", batch |-> NoBatch]]
            /\ UNCHANGED source
    /\ UNCHANGED <<inserted, table_, import_status, importer, connector,
                   graphVars, lockVars, poolVars>>

\* lines 135-139: import_failed(), then getInsertData() and !batch
ImportFailedFirst ==
  \E w \in Workers :
    /\ worker[w].pc = "failed1"
    /\ worker' = [worker EXCEPT ![w].pc =
         IF import_status.load_failed \/ ~worker[w].batch.insert_data
         THEN "done" ELSE "failed2"]
    /\ UNCHANGED <<inserted, table_, import_status, source, importer, connector,
                   graphVars, lockVars, poolVars>>

\* mutant: the status is not read again after getInsertData()
ImportFailedSecond_skip ==
  \E w \in Workers :
    /\ worker[w].pc = "failed2"
    /\ worker' = [worker EXCEPT ![w].pc = "insert"]
    /\ UNCHANGED <<inserted, table_, import_status, source, importer, connector,
                   graphVars, lockVars, poolVars>>

\* line 139: the second import_failed()
ImportFailedSecond ==
  \E w \in Workers :
    /\ worker[w].pc = "failed2"
    /\ worker' = [worker EXCEPT ![w].pc =
         IF import_status.load_failed THEN "done" ELSE "insert"]
    /\ UNCHANGED <<inserted, table_, import_status, source, importer, connector,
                   graphVars, lockVars, poolVars>>

\* line 142: insert_data_loader.insertData(*session_info, *batch)
InsertData ==
  \E w \in Workers :
    /\ worker[w].pc = "insert"
    /\ worker' = [worker EXCEPT ![w].pc = "update"]
    /\ connector' = Append(connector, "insertData")
    /\ inserted' = Append(inserted, worker[w].batch)
    /\ UNCHANGED <<table_, import_status, source, importer, graphVars, lockVars, poolVars>>

\* mutant: the counts of the batch are assigned, not added
UpdateImportStatus_assign ==
  \E w \in Workers :
    /\ worker[w].pc = "update"
    /\ LET completed == worker[w].batch.rows_completed
           rejected == worker[w].batch.rows_rejected
       IN IF rejected > table_.max_reject
          THEN /\ import_status' = [rows_completed |-> completed,
                                    rows_rejected |-> rejected, load_failed |-> TRUE]
               /\ worker' = [worker EXCEPT ![w].pc = "done"]
          ELSE /\ import_status' = [import_status EXCEPT
                                      !.rows_completed = completed,
                                      !.rows_rejected = rejected]
               /\ worker' = [worker EXCEPT ![w].pc = "next"]
    /\ UNCHANGED <<inserted, table_, source, importer, connector,
                   graphVars, lockVars, poolVars>>

\* lines 144-155: the update of import_status under the exclusive lock
UpdateImportStatus ==
  \E w \in Workers :
    /\ worker[w].pc = "update"
    /\ LET completed == import_status.rows_completed + worker[w].batch.rows_completed
           rejected == import_status.rows_rejected + worker[w].batch.rows_rejected
       IN IF rejected > table_.max_reject
          THEN /\ import_status' = [rows_completed |-> completed,
                                    rows_rejected |-> rejected, load_failed |-> TRUE]
               /\ worker' = [worker EXCEPT ![w].pc = "done"]
          ELSE /\ import_status' = [import_status EXCEPT
                                      !.rows_completed = completed,
                                      !.rows_rejected = rejected]
               /\ worker' = [worker EXCEPT ![w].pc = "next"]
    /\ UNCHANGED <<inserted, table_, source, importer, connector,
                   graphVars, lockVars, poolVars>>

\* lines 160-173: every future waited for, then finalize is entered
WaitFutures ==
  /\ importer.pc = "wait"
  /\ \A w \in Workers : worker[w].pc = "done"
  /\ importer' = [importer EXCEPT !.pc = "finalize"]
  /\ UNCHANGED <<inserted, table_, import_status, source, worker, connector,
                 graphVars, lockVars, poolVars>>

\* lines 39-42 of finalize: the dictionaries are checkpointed for a
\* disk-resident table of a load that has not failed
FinalizeEnter ==
  /\ importer.pc = "finalize"
  /\ importer' = [importer EXCEPT !.pc =
       IF table_.persistenceLevel = "DISK_LEVEL" /\ ~import_status.load_failed
          /\ importer.dicts > 0
       THEN "dictionaries" ELSE "decide"]
  /\ UNCHANGED <<inserted, table_, import_status, source, worker, connector,
                 graphVars, lockVars, poolVars>>

\* lines 44-52: string_dictionary->checkpoint() of the next dictionary
CheckpointDictionary ==
  /\ importer.pc = "dictionaries"
  /\ \E ok \in BOOLEAN :
       IF ok
       THEN /\ importer' = [pc |-> IF importer.dicts > 1 THEN "dictionaries" ELSE "decide",
                            dicts |-> importer.dicts - 1]
            /\ UNCHANGED import_status
       ELSE /\ import_status' = [import_status EXCEPT !.load_failed = TRUE]
            /\ importer' = [importer EXCEPT !.pc = "decide"]
  /\ UNCHANGED <<inserted, table_, source, worker, connector,
                 graphVars, lockVars, poolVars>>

\* mutant: the status of a load rolled back is cleared
FinalizeDecide_cleared ==
  /\ importer.pc = "decide"
  /\ connector' = Append(connector,
       IF import_status.load_failed THEN "rollback" ELSE "checkpoint")
  /\ import_status' = [import_status EXCEPT !.load_failed = FALSE]
  /\ importer' = [importer EXCEPT !.pc = "returned"]
  /\ UNCHANGED <<inserted, table_, source, worker,
                 graphVars, lockVars, poolVars>>

\* mutant: the table is checkpointed whatever load_failed says
FinalizeDecide_checkpoint ==
  /\ importer.pc = "decide"
  /\ connector' = Append(connector, "checkpoint")
  /\ importer' = [importer EXCEPT !.pc = "returned"]
  /\ UNCHANGED <<inserted, table_, import_status, source, worker,
                 graphVars, lockVars, poolVars>>

\* lines 55-59: rollback or checkpoint of the table
FinalizeDecide ==
  /\ importer.pc = "decide"
  /\ connector' = Append(connector,
       IF import_status.load_failed THEN "rollback" ELSE "checkpoint")
  /\ importer' = [importer EXCEPT !.pc = "returned"]
  /\ UNCHANGED <<inserted, table_, import_status, source, worker,
                 graphVars, lockVars, poolVars>>

\* one import by two workers, for each table and max_reject
InitImport ==
  GraphInit(RolesUniverse) /\ LocksInit /\ PoolInit /\ ImportInit(Tables)
NextImport ==
  \/ GetNextImportBatch \/ ImportFailedFirst \/ ImportFailedSecond
  \/ InsertData \/ UpdateImportStatus
  \/ WaitFutures \/ FinalizeEnter \/ CheckpointDictionary \/ FinalizeDecide
SpecImport == InitImport /\ [][NextImport]_vars

\* the same import with every thread scheduled: a step that can be taken is
\* taken in the end
SpecImportLive == SpecImport /\ WF_vars(NextImport)

\* ------------------------------------------- the buffer pool, call by call
\* a call on the pool: the graph, the guards and the import are left as they
\* are
PoolCall(op, c, ret) ==
  /\ pool_last' = [op |-> op, chunk_key |-> c, ret |-> ret]
  /\ UNCHANGED <<graphVars, lockVars, importVars>>

\* createChunkBuffer: fails when the chunk is there; allocates n pages, after
\* eviction when too few are free; fails and caps the pool when eviction
\* cannot free them.  The buffer gets its first stamp, and the caller keeps it
\* pinned or not.  A key whose evicted record is still retained gets a new
\* record.
CreateChunkBuffer ==
  \E c \in ChunkKeys, n \in PageCounts, pin \in {0, 1} :
    /\ touchCounter < MaxTouch
    /\ IF nodeMemoryData[c].memStatus = "USED"
       THEN /\ PoolCall("createChunkBuffer", c, "AlreadyExists")
            /\ UNCHANGED <<nodeMemoryData, isAllocationCapped, touchCounter>>
       ELSE LET m == evictFor(nodeMemoryData, n)
            IN IF maxNumPages - numPageAllocated(m) >= n
               THEN /\ nodeMemoryData' =
                         [m EXCEPT ![c] = [numPages |-> n, touch |-> touchCounter + 1,
                                           memStatus |-> "USED", pinCount |-> pin]]
                    /\ touchCounter' = touchCounter + 1
                    /\ PoolCall("createChunkBuffer", c, "")
                    /\ UNCHANGED isAllocationCapped
               ELSE /\ nodeMemoryData' = m
                    /\ isAllocationCapped' = TRUE
                    /\ PoolCall("createChunkBuffer", c, "AllocationCapped")
                    /\ UNCHANGED touchCounter

\* getChunkBuffer of a chunk the pool holds: the counter advances, the buffer
\* is stamped and pinned
GetChunkBuffer ==
  \E c \in ChunkKeys :
    /\ touchCounter < MaxTouch
    /\ nodeMemoryData[c].memStatus = "USED"
    /\ nodeMemoryData[c].pinCount < MaxPins
    /\ nodeMemoryData' = [nodeMemoryData EXCEPT ![c].touch = touchCounter + 1,
                                                  ![c].pinCount = @ + 1]
    /\ touchCounter' = touchCounter + 1
    /\ PoolCall("getChunkBuffer", c, "")
    /\ UNCHANGED isAllocationCapped

\* the holder of a buffer lets it go
Unpin ==
  \E c \in ChunkKeys :
    /\ nodeMemoryData[c].memStatus = "USED"
    /\ nodeMemoryData[c].pinCount > 0
    /\ nodeMemoryData' = [nodeMemoryData EXCEPT ![c].pinCount = @ - 1]
    /\ PoolCall("unPin", c, "")
    /\ UNCHANGED <<isAllocationCapped, touchCounter>>

\* explicit delete: USED -> FREE, refused while the buffer is pinned
DeleteChunk ==
  \E c \in ChunkKeys :
    /\ nodeMemoryData[c].memStatus = "USED"
    /\ IF nodeMemoryData[c].pinCount > 0
       THEN /\ PoolCall("deleteChunk", c, "Pinned")
            /\ UNCHANGED nodeMemoryData
       ELSE /\ nodeMemoryData' = [nodeMemoryData EXCEPT ![c] = FreeSlot]
            /\ PoolCall("deleteChunk", c, "")
    /\ UNCHANGED <<isAllocationCapped, touchCounter>>

\* slab compaction: EVICTED -> FREE
Compact ==
  /\ \E c \in ChunkKeys : nodeMemoryData[c].memStatus = "EVICTED"
  /\ nodeMemoryData' =
       [c \in ChunkKeys |-> IF nodeMemoryData[c].memStatus = "EVICTED"
                            THEN FreeSlot ELSE nodeMemoryData[c]]
  /\ PoolCall("compact", "", "")
  /\ UNCHANGED <<isAllocationCapped, touchCounter>>

InitPool == InitOf(RolesUniverse)
NextPool ==
  \/ CreateChunkBuffer
  \/ GetChunkBuffer
  \/ Unpin
  \/ DeleteChunk
  \/ Compact
SpecPool == InitPool /\ [][NextPool]_vars

\* ------------------------------------------------------------ the graph
\* the nodes reached from the set X along edge (a function from a node to
\* its neighbours) in zero or more steps
RECURSIVE Reach(_, _, _)
Reach(edge, X, n) ==
  IF n = 0 THEN X
  ELSE Reach(edge, X \cup UNION {edge[x] : x \in X}, n - 1)

\* the grantees a role is granted to, directly or through other roles
Descendants(S, g) == Reach(S.grantees, S.grantees[g], Cardinality(Grantees))
\* the roles a grantee holds, directly or through other roles
Ancestors(S, g) == Reach(S.roles, S.roles[g], Cardinality(Grantees))

\* the bits at key k that g is granted directly or that any role it holds,
\* at any depth, is granted directly
TransitivePrivs(S, g, k) ==
  Get(S.direct[g], k) \cup UNION {Get(S.direct[a], k) : a \in Ancestors(S, g)}

\* the keys of the widening sequence of a requested key
Covering(key) ==
  {key}
  \cup (IF key.objectId # -1 THEN {[key EXCEPT !.objectId = -1]} ELSE {})
  \cup (IF key.dbId # -1 THEN {[key EXCEPT !.objectId = -1, !.dbId = -1]} ELSE {})

\* the keys a caller may ask about
RequestKeys ==
  {DBObjectKey(t, d, o) : t \in {TableT, ViewT}, d \in {-1, 1, 2}, o \in {-1, 7, 8}}

\* ---------------------------------------------------------------- claims
\* C1: for every grantee g and key k, the effective bitset of g at k (0 when
\* the key is absent) is the OR of g's direct bitset at k and the effective
\* bitsets at k of the roles in g.roles, after every call.
C1_EffectiveIsUnion ==
  \A g \in Grantees, k \in Keys :
    Get(effectivePrivileges[g], k) =
      Get(directPrivileges[g], k)
        \cup UNION {Get(effectivePrivileges[r], k) : r \in roles[g]}

\* a grant to a role reached the user two edges below it, along edges made
\* before the grant
C1_Witness ==
  /\ last.op = "grantPrivileges"
  /\ \E r1, r2 \in Roles :
       /\ r1 \in roles[User(1)] /\ r2 \in roles[r1] /\ r2 \notin roles[User(1)]
       /\ DOMAIN directPrivileges[User(1)] = {}
       /\ DOMAIN directPrivileges[r1] = {}
       /\ Get(directPrivileges[r2], KeyDb) = {"SELECT"}
       /\ Get(effectivePrivileges[User(1)], KeyDb) = {"SELECT"}

\* C3: the grant graph is acyclic: no role is reachable from itself along
\* one or more grantees edges.
C3_Acyclic == \A r \in Roles : r \notin Descendants(State, r)

\* a grant that would close a cycle over a chain of two edges was refused
C3_Witness ==
  /\ last.op = "grantRole" /\ err = CycleError
  /\ \E a, b, c \in Roles :
       a # b /\ b # c /\ a # c /\ b \in grantees[a] /\ c \in grantees[b]

\* C4: grantRole(g, role) with the edge absent throws the cycle error exactly
\* when role is g or a transitive descendant of g; otherwise it succeeds; and
\* a call that throws leaves every roles, grantees, direct and effective
\* field as it was.
C4_CycleExactly ==
  \A g \in alive, role \in alive \cap Roles :
    role \notin roles[g] =>
      \A S \in grantRole(State, g, role) :
        /\ S.err \in {NoError, CycleError}
        /\ (S.err = CycleError) <=> (role = g \/ role \in Descendants(State, g))
        /\ S.err = CycleError => S = Throw(State, CycleError)
        /\ S.err = NoError => role \in S.roles[g] /\ g \in S.grantees[role]

\* the third call of grantRole(r2, r1); grantRole(r3, r2); grantRole(r1, r3)
\* was refused, with privileges in the graph
C4_Witness ==
  /\ last.op = "grantRole" /\ err = CycleError
  /\ Role(2) \in grantees[Role(1)] /\ Role(3) \in grantees[Role(2)]
  /\ CycleError \in {S.err : S \in grantRole(State, Role(1), Role(3))}
  /\ Get(effectivePrivileges[Role(3)], KeyDb) = {"SELECT"}

\* C5: g is in r.grantees if and only if r is in g.roles, for every role r
\* and grantee g, after every call.
C5_Bidirectional ==
  \A r \in Roles, g \in Grantees : g \in grantees[r] <=> r \in roles[g]

\* a role was destroyed and edges remain among the grantees left
C5_Witness ==
  /\ last.op = "destroy"
  /\ \E r \in Roles \ alive, a, b \in alive : a \in grantees[b]

\* C2: checkPrivileges(g, requested) is true if and only if one effective
\* entry of g, at a key of the widening sequence of the requested key (the
\* key itself, the key with objectId = -1, the key with objectId = -1 and
\* dbId = -1; the permission type kept), contains every requested bit.
C2_CheckIffCovered ==
  \A g \in alive, key \in RequestKeys, req \in PrivSets :
    checkPrivileges(State, g, key, req) <=>
      \E c \in Covering(key) :
        Has(effectivePrivileges[g], c) /\ req \subseteq effectivePrivileges[g][c]

\* a request for a table was answered true and no grantee holds an entry
\* for the table or for every database: the grant on its database covered it
C2_Witness ==
  /\ last.op = "checkPrivileges" /\ last.ret = TRUE
  /\ \A g \in alive : ~Has(effectivePrivileges[g], KeyTable)
                      /\ ~Has(effectivePrivileges[g], KeyAll)

\* checkPrivileges(g, S on k) in state T is true exactly when g is granted S,
\* directly or through roles at any depth, at one covering key
VisibleExactly(T, g, k, req) ==
  checkPrivileges(T, g, k, req) <=>
    \E c \in Covering(k) : req \subseteq TransitivePrivs(T, g, c)

\* the grant of a non-empty set S on k to the role R is visible at once to
\* every grantee below R
GrantVisibleBelow(R, k, req) ==
  \A T \in grantPrivileges(State, R, k, req) :
    \A g \in Descendants(State, R) : checkPrivileges(T, g, k, req)

\* C6 (as amended): for a non-empty S, right after grantPrivileges(R, S on k)
\* every grantee that reaches R through one or more edges passes
\* checkPrivileges(S on k); right after a revokeRole or a revokePrivileges,
\* checkPrivileges(g, S on k) is true only if g is granted S at a covering
\* key directly or through a role it still holds.
C6_VisibleAtEveryDepth ==
  /\ \A R \in alive \cap Roles, k \in Keys, req \in PrivSets \ {{}} :
       GrantVisibleBelow(R, k, req)
  /\ (last.op \in {"revokeRole", "revokePrivileges"} /\ err = NoError) =>
       \A g \in alive, k \in RequestKeys, req \in PrivSets \ {{}} :
         VisibleExactly(State, g, k, req)

\* C6 as stated: the same for every S, the empty one included
C6_Original ==
  /\ \A R \in alive \cap Roles, k \in Keys, req \in PrivSets :
       GrantVisibleBelow(R, k, req)
  /\ (last.op \in {"revokeRole", "revokePrivileges"} /\ err = NoError) =>
       \A g \in alive, k \in RequestKeys, req \in PrivSets :
         checkPrivileges(State, g, k, req) =>
           \E c \in Covering(k) : req \subseteq TransitivePrivs(State, g, c)

\* a grant to Role(2) has just reached the user two edges below, who passes
\* the check for a table of the database through it alone
C6_Witness ==
  /\ last.op = "grantPrivileges"
  /\ roles[User(1)] = {Role(1)} /\ roles[Role(1)] = {Role(2)}
  /\ DOMAIN directPrivileges[User(1)] = {}
  /\ Get(directPrivileges[Role(2)], KeyDb) = {"SELECT"}
  /\ checkPrivileges(State, User(1), KeyTable, {"SELECT"})

\* the map hasAnyPrivileges consults
Selected(g, only_direct) ==
  IF only_direct THEN directPrivileges[g] ELSE effectivePrivileges[g]

\* C7 (as amended): hasAnyPrivileges(g, requested, only_direct) is true if
\* and only if, at one key of the widening sequence, the entry of the map
\* selected holds any bit at all, requested or not.
C7_AnyBitAtAll ==
  \A g \in alive, key \in RequestKeys, req \in PrivSets, only_direct \in BOOLEAN :
    hasAnyPrivileges(State, g, key, req, only_direct) <=>
      \E c \in Covering(key) :
        Has(Selected(g, only_direct), c) /\ Selected(g, only_direct)[c] # {}

\* C7 as stated: true if and only if the entry shares a bit with the bits
\* requested
C7_Original ==
  \A g \in alive, key \in RequestKeys, req \in PrivSets, only_direct \in BOOLEAN :
    hasAnyPrivileges(State, g, key, req, only_direct) <=>
      \E c \in Covering(key) :
        Has(Selected(g, only_direct), c) /\ (Selected(g, only_direct)[c] \cap req) # {}

\* a request for SELECT was answered true and no grantee holds SELECT
\* anywhere
C7_Witness ==
  /\ last.op = "hasAnyPrivileges" /\ last.ret = TRUE
  /\ \A g \in alive, k \in Keys :
       "SELECT" \notin Get(directPrivileges[g], k) \cup Get(effectivePrivileges[g], k)

\* g and, for a role, the grantees below it
Subtree(T, g) == {g} \cup (IF isUser(g) THEN {} ELSE Descendants(T, g))

\* the keys of a database
KeysOf(dbId) == {k \in Keys : k.dbId = dbId}

\* C8 (as amended): after revokeAllOnDatabase(g, dbId), g and, for a role,
\* every grantee below it have no direct entry of the database, and their
\* effective bitset at a key of the database is what the roles they hold
\* outside g's subtree are granted there: an effective entry of the database
\* stays exactly where such a role supplies it.
C8_RevokeAllOnDatabase ==
  \A g \in alive, dbId \in {1, 2} :
    \A T \in revokeAllOnDatabase(State, g, dbId, 1) :
      \A d \in Subtree(T, g) :
        /\ \A k \in DOMAIN T.direct[d] : k.dbId # dbId
        /\ \A k \in KeysOf(dbId) :
             Get(T.eff[d], k) =
               UNION {Get(T.direct[a], k) : a \in Ancestors(T, d) \ Subtree(T, g)}
        /\ \A k \in DOMAIN T.eff[d] : T.eff[d][k] # {}

\* C8 as stated: neither map of g or of a grantee below it has an entry of
\* the database
C8_Original ==
  \A g \in alive, dbId \in {1, 2} :
    \A T \in revokeAllOnDatabase(State, g, dbId, 1) :
      \A d \in Subtree(T, g) :
        /\ \A k \in DOMAIN T.direct[d] : k.dbId # dbId
        /\ \A k \in DOMAIN T.eff[d] : k.dbId # dbId

\* the database was revoked from Role(1) or from the user below it, whose
\* direct entries of the database are gone, and the user keeps the effective
\* entry Role(2) supplies
C8_Witness ==
  /\ last.op = "revokeAllOnDatabase"
  /\ roles[User(1)] = {Role(1), Role(2)} /\ roles[Role(1)] = {} /\ roles[Role(2)] = {}
  /\ Get(directPrivileges[Role(2)], KeyDb) = {"SELECT"}
  /\ DOMAIN directPrivileges[User(1)] = {KeyAll}
  /\ DOMAIN effectivePrivileges[User(1)] = {KeyAll, KeyDb}

\* the maps of every grantee in T are those of the current state
SameMaps(T) == T.direct = directPrivileges /\ T.eff = effectivePrivileges

\* revokePrivileges(g, obj) after grantPrivileges(g, obj) returns and leaves
\* the maps of every grantee as they are now
RoundTripPrivileges(g, k, p) ==
  \A T1 \in grantPrivileges(State, g, k, p) :
    \A T2 \in revokePrivileges(T1, g, k, p) : T2.err = NoError /\ SameMaps(T2)

\* g holds none of the bits of p directly at k: no entry, or a non-empty one
\* that shares no bit with p
HoldsNone(g, k, p) ==
  \/ ~Has(directPrivileges[g], k)
  \/ directPrivileges[g][k] # {} /\ directPrivileges[g][k] \cap p = {}

\* C9 (as amended): for an object obj with a non-empty bitset of which g holds
\* no bit directly at obj.key, grantPrivileges(g, obj) followed by
\* revokePrivileges(g, obj) leaves the direct and the effective map of g and
\* of every other grantee as they were.
C9_GrantRevokeRoundTrip ==
  \A g \in alive, k \in Keys, p \in PrivSets \ {{}} :
    HoldsNone(g, k, p) => RoundTripPrivileges(g, k, p)

\* no direct entry is empty
NoEmptyDirect ==
  \A g \in alive : \A k \in DOMAIN directPrivileges[g] : directPrivileges[g][k] # {}

\* C9 as stated, for the objects that carry at least one bit and from the
\* states without an empty direct entry
C9_Original ==
  NoEmptyDirect =>
  \A g \in alive, k \in Keys, p \in PrivSets \ {{}} :
    \A T1 \in grantPrivileges(State, g, k, p) :
      \A T2 \in revokePrivileges(T1, g, k, p) : SameMaps(T2)

\* Role(2) holds INSERT on the database and is granted to the user; granting
\* it SELECT there changes the user's effective map and revoking SELECT
\* restores every map
C9_Witness ==
  /\ last.op = "revokePrivileges" /\ err = NoError
  /\ User(1) \in grantees[Role(2)]
  /\ HoldsNone(Role(2), KeyDb, {"SELECT"})
  /\ \E T1 \in grantPrivileges(State, Role(2), KeyDb, {"SELECT"}) :
       /\ T1.eff[User(1)] # effectivePrivileges[User(1)]
       /\ \A T2 \in revokePrivileges(T1, Role(2), KeyDb, {"SELECT"}) : SameMaps(T2)

\* C10: where grantRole(g, r) succeeds, revokeRole(g, r) after it restores
\* the roles and grantees sets of every grantee and the effective (and
\* direct) maps of g and of every grantee below it.
C10_GrantRevokeRoleRoundTrip ==
  \A g \in alive, r \in alive \cap Roles :
    \A T1 \in grantRole(State, g, r) :
      T1.err = NoError =>
        \A T2 \in revokeRole(T1, g, r) :
          /\ T2.err = NoError
          /\ T2.roles = roles /\ T2.grantees = grantees
          /\ SameMaps(T2)

\* Role(1), which holds SELECT, can be granted to Role(2), which has the
\* user below it: the grant changes the effective maps of Role(2) and of the
\* user and the revoke restores them
C10_Witness ==
  /\ last.op = "revokeRole" /\ err = NoError
  /\ Get(directPrivileges[Role(1)], KeyDb) = {"SELECT"}
  /\ User(1) \in grantees[Role(2)] /\ Role(1) \notin Ancestors(State, User(1))
  /\ \E T1 \in grantRole(State, Role(2), Role(1)) :
       /\ T1.err = NoError
       /\ T1.eff[Role(2)] # effectivePrivileges[Role(2)]
       /\ T1.eff[User(1)] # effectivePrivileges[User(1)]
       /\ \A T2 \in revokeRole(T1, Role(2), Role(1)) : SameMaps(T2)

\* revokePrivileges(g, privs on k) ended in T with the error and nothing else
\* changed
RevokeRefused(T) ==
  /\ T.err = NoPrivileges
  /\ T.roles = roles /\ T.grantees = grantees /\ SameMaps(T)

\* revokePrivileges(g, privs on k) ended in T without an error: the direct
\* bitset of g at k is the old one minus privs, the entry is there exactly when
\* a bit is left, nullptr is returned exactly when it is not, and no other
\* direct entry changed
RevokeDone(T, g, k, p) ==
  LET left == directPrivileges[g][k] \ p
  IN /\ T.err = NoError
     /\ Has(T.direct[g], k) <=> left # {}
     /\ Get(T.direct[g], k) = left
     /\ revokePrivilegesResult(State, g, k, p) = "nullptr" <=> ~Has(T.direct[g], k)
     /\ \A x \in DOMAIN directPrivileges[g] \ {k} :
          Has(T.direct[g], x) /\ T.direct[g][x] = directPrivileges[g][x]
     /\ DOMAIN T.direct[g] \subseteq DOMAIN directPrivileges[g]
     /\ \A h \in Grantees \ {g} : T.direct[h] = directPrivileges[h]

\* C11: revokePrivileges(g, obj) fails with an error and changes nothing when
\* g has no direct entry at obj.key or the entry has no bit; otherwise the
\* direct bitset becomes the old one minus obj.privileges, the entry is erased
\* exactly when nothing is left, nullptr is returned exactly then, and the
\* direct entries at other keys are unchanged.
C11_RevokePrivileges ==
  \A g \in alive, k \in Keys, p \in PrivSets :
    \A T \in revokePrivileges(State, g, k, p) :
      IF ~Has(directPrivileges[g], k) \/ directPrivileges[g][k] = {}
      THEN RevokeRefused(T)
      ELSE RevokeDone(T, g, k, p)

\* a revoke has just erased the user's entry for the table and left its
\* entry for the database; Role(2) holds an entry without bits, on which a
\* revoke is refused
C11_Witness ==
  /\ last.op = "revokePrivileges" /\ last.ret = "nullptr" /\ err = NoError
  /\ DOMAIN directPrivileges[User(1)] = {KeyDb}
  /\ Has(directPrivileges[Role(2)], KeyDb) /\ directPrivileges[Role(2)][KeyDb] = {}

\* C12: grantRole(g, role) with role already among the roles of g fails with
\* the 'already granted' error and leaves the roles, the grantees, the direct
\* and the effective maps of every grantee as they were.
C12_AlreadyGranted ==
  \A g \in alive : \A r \in roles[g] :
    \A T \in grantRole(State, g, r) :
      /\ T.err = AlreadyGranted
      /\ T.roles = roles /\ T.grantees = grantees /\ SameMaps(T)

\* Role(1), which brings the user its effective entry, was granted to the
\* user a second time
C12_Witness ==
  /\ last.op = "grantRole" /\ err = AlreadyGranted
  /\ roles[User(1)] = {Role(1)} /\ grantees[Role(1)] = {User(1)}
  /\ Get(directPrivileges[Role(1)], KeyDb) = {"SELECT"}
  /\ Get(effectivePrivileges[User(1)], KeyDb) = {"SELECT"}

\* the direct bitset of g at k in T is b, held in an entry
DirectIs(T, g, k, b) == Has(T.direct[g], k) /\ T.direct[g][k] = b

\* grantPrivileges(g, p on k) and then grantPrivileges(g, q on k) from the
\* current state: the direct bitset is what it was OR p, then OR q as well
\* (the same bitset for p, q granted in the other order); repeating p leaves
\* the state the first grant made
GrantsAccumulate(g, k, p, q) ==
  LET old == Get(directPrivileges[g], k)
  IN \A T1 \in grantPrivileges(State, g, k, p) :
       /\ T1.err = NoError /\ DirectIs(T1, g, k, old \cup p)
       /\ \A T2 \in grantPrivileges(T1, g, k, q) :
            /\ T2.err = NoError /\ DirectIs(T2, g, k, old \cup p \cup q)
            /\ q = p => T2 = T1

\* C13: grants are cumulative: after grantPrivileges calls on g for one key
\* with no revoke between them the direct bitset of g at the key is the OR of
\* the bitset it had and of the bitsets granted, in whichever order they were
\* granted, and a grant repeated changes nothing.
C13_GrantsCumulative ==
  \A g \in alive, k \in Keys, p \in PrivSets, q \in PrivSets :
    GrantsAccumulate(g, k, p, q)

\* the user was granted SELECT on the table and a grant of INSERT there adds
\* to it
C13_Witness ==
  /\ last.op = "grantPrivileges"
  /\ Get(directPrivileges[User(1)], KeyTable) = {"SELECT"}
  /\ \E T \in grantPrivileges(State, User(1), KeyTable, {"INSERT"}) :
       T.direct[User(1)][KeyTable] = {"SELECT", "INSERT"}

\* C14: after every grantPrivileges, revokePrivileges, grantRole, revokeRole
\* and revokeAllOnDatabase no effective map of any grantee holds an entry
\* whose bitset is empty.
C14_NoEmptyEffective ==
  \A g \in Grantees :
    \A k \in DOMAIN effectivePrivileges[g] : effectivePrivileges[g][k] # {}

\* Role(2) was granted an empty object on the database: its direct entry is
\* there without a bit, and neither Role(2) nor the user below it has an
\* effective entry for it
C14_Witness ==
  /\ last.op = "grantPrivileges"
  /\ User(1) \in grantees[Role(2)]
  /\ Has(directPrivileges[Role(2)], KeyDb) /\ directPrivileges[Role(2)][KeyDb] = {}
  /\ ~Has(effectivePrivileges[Role(2)], KeyDb)
  /\ ~Has(effectivePrivileges[User(1)], KeyDb)

\* ------------------------------------------------ claims on the guards
\* the guards of thread t below its i-th one
Outer(t, i) == {guards[t][j] : j \in 1..(i - 1)}

\* thread t is inside the scope of a guard of the class on catalog c: the
\* constructor has returned and the destructor has not begun
InScope(t, kind, c) ==
  \E i \in 1..Len(guards[t]) :
    /\ guards[t][i].kind = kind /\ guards[t][i].catalog = c
    /\ guards[t][i].pc = "live"

\* C15: while a thread is inside the scope of a write_lock guard on a catalog
\* no other thread is inside the scope of a read_lock or a write_lock guard
\* on that catalog, whatever guards the threads nest and on however many
\* catalogs of the type.
C15_ReaderWriterExclusion ==
  \A c \in Catalogs, t \in Threads, u \in Threads :
    (u # t /\ InScope(t, "write_lock", c)) =>
      ~InScope(u, "read_lock", c) /\ ~InScope(u, "write_lock", c)

\* the guard took nothing and its constructor returned without waiting
TookNothing(g) == g.pc = "live" /\ ~g.holds_lock /\ ~g.read_holds

\* the i-th guard of t was constructed while t held what makes it reentrant
Reentrant(t, i) ==
  LET g == guards[t][i]
  IN \/ /\ g.kind = "read_lock"
        /\ \E o \in Outer(t, i) :
             \/ o.kind = "write_lock" /\ o.catalog = g.catalog /\ o.holds_lock
             \/ o.kind = "read_lock" /\ o.holds_lock
             \/ o.kind = "sqlite_lock" /\ o.read_holds
     \/ /\ g.kind = "write_lock"
        /\ \E o \in Outer(t, i) :
             o.kind = "write_lock" /\ o.catalog = g.catalog /\ o.holds_lock
     \/ /\ g.kind = "sqlite_lock"
        /\ \E o \in Outer(t, i) :
             o.kind = "sqlite_lock" /\ o.catalog = g.catalog /\ o.holds_lock

\* C16: a read_lock constructed by a thread that holds the catalog's write
\* lock or a read lock, a write_lock by a thread that holds the write lock, a
\* sqlite_lock by a thread that holds the sqlite lock, takes nothing on a
\* mutex and its constructor never waits.
C16_Reentrant ==
  \A t \in Threads : \A i \in 1..Len(guards[t]) :
    Reentrant(t, i) => TookNothing(guards[t][i])

\* thread t1 is inside a read_lock inside a write_lock on A, the inner guard
\* holding nothing, while t2 waits for A
C16_Witness ==
  /\ Len(guards["t1"]) = 2
  /\ guards["t1"][1].kind = "write_lock" /\ guards["t1"][1].holds_lock
  /\ guards["t1"][2].kind = "read_lock" /\ guards["t1"][2].catalog = "A"
  /\ guards["t1"][1].catalog = "A" /\ guards["t1"][2].pc = "live"
  /\ guards["t2"] # <<>> /\ Top("t2").catalog = "A" /\ Top("t2").pc = "lock"

\* the threads that hold the sqliteMutex of c through a sqlite_lock guard
SqliteHolders(c) ==
  {t \in Threads : \E i \in 1..Len(guards[t]) :
     /\ guards[t][i].kind = "sqlite_lock" /\ guards[t][i].catalog = c
     /\ \/ guards[t][i].pc \in {"owner", "unlock"}
        \/ guards[t][i].pc = "live" /\ guards[t][i].holds_lock}

\* C17: at most one thread holds the sqliteMutex of a catalog, and a thread
\* that holds it through a sqlite_lock guard holds shared or exclusive access
\* to the sharedMutex of the same catalog.
C17_SqliteUnderShared ==
  \A c \in Catalogs :
    /\ Cardinality(SqliteHolders(c)) <= 1
    /\ \A t \in SqliteHolders(c) :
         /\ sqliteMutex_[c] = t
         /\ t \in sharedMutex_[c].readers \/ sharedMutex_[c].writer = t

\* thread t is between taking the mutex of catalog c and recording its id, or
\* between clearing its id and releasing the mutex
InWindow(t, kind, c) ==
  /\ guards[t] # <<>>
  /\ Top(t).kind = kind /\ Top(t).catalog = c /\ Top(t).pc \in {"owner", "unlock"}

\* C18 (as amended): an owner field that names a thread names the thread that
\* holds the mutex (sharedMutex_ exclusively for thread_holding_write_lock,
\* sqliteMutex_ for thread_holding_sqlite_lock), and the field of a mutex that
\* is held names its holder except while the holder is inside the guard's
\* lock_catalog or unlock, between the mutex operation and the write of the
\* field.
C18_OwnerFields ==
  \A c \in Catalogs :
    /\ thread_holding_write_lock[c] # no_thread =>
         sharedMutex_[c].writer = thread_holding_write_lock[c]
    /\ thread_holding_sqlite_lock[c] # no_thread =>
         sqliteMutex_[c] = thread_holding_sqlite_lock[c]
    /\ \A t \in Threads :
         /\ (sharedMutex_[c].writer = t /\ ~InWindow(t, "write_lock", c)) =>
              thread_holding_write_lock[c] = t
         /\ (sqliteMutex_[c] = t /\ ~InWindow(t, "sqlite_lock", c)) =>
              thread_holding_sqlite_lock[c] = t

\* C18 as stated: in every state the owner field is the holder of the mutex,
\* and no thread when no thread holds it
C18_Original ==
  \A c \in Catalogs :
    /\ thread_holding_write_lock[c] = sharedMutex_[c].writer
    /\ thread_holding_sqlite_lock[c] = sqliteMutex_[c]

\* t1 is inside a write_lock on A and t2 inside a sqlite_lock on B, each
\* recorded in the owner field
C18_Witness ==
  /\ InScope("t1", "write_lock", "A") /\ thread_holding_write_lock["A"] = "t1"
  /\ InScope("t2", "sqlite_lock", "B") /\ thread_holding_sqlite_lock["B"] = "t2"
  /\ sharedMutex_["A"].writer = "t1" /\ sqliteMutex_["B"] = "t2"

\* the destructor of g ended in T: it returned, no grantee names g in its
\* roles or its grantees, the other edges are as they were, and every other
\* grantee has the effective bitsets its direct entries and the roles it still
\* holds give it
Destroyed(T, g) ==
  /\ T.err = NoError
  /\ T.roles[g] = {} /\ T.grantees[g] = {}
  /\ \A x \in Grantees \ {g} :
       /\ T.roles[x] = roles[x] \ {g}
       /\ T.grantees[x] = grantees[x] \ {g}
       /\ T.direct[x] = directPrivileges[x]
       /\ \A k \in Keys : Get(T.eff[x], k) = TransitivePrivs(T, x, k)

\* C20: destroying a grantee takes it out of the grantees of every role it
\* held; destroying a role also takes it out of the roles of every grantee it
\* was granted to and recomputes their effective privileges, and those of the
\* grantees below them, without what the role brought.  No grantee that is
\* left names a destroyed one.
C20_Destruction ==
  /\ \A g \in alive : \A T \in destroy(State, g) : Destroyed(T, g)
  /\ \A x \in Grantees, d \in Grantees \ alive :
       d \notin roles[x] /\ d \notin grantees[x]

\* a grantee was destroyed before; Role(2), which holds SELECT and above it
\* Role(3), is held by the user, who loses SELECT when Role(2) is destroyed
C20_Witness ==
  /\ last.op = "destroy"
  /\ roles[User(1)] = {Role(2)} /\ roles[Role(2)] = {Role(3)}
  /\ Get(directPrivileges[Role(3)], KeyDb) = {"SELECT"}
  /\ Get(effectivePrivileges[User(1)], KeyDb) = {"SELECT"}
  /\ \E T \in destroy(State, Role(2)) :
       /\ ~Has(T.eff[User(1)], KeyDb)
       /\ T.grantees[Role(3)] = {} /\ T.roles[User(1)] = {}

\* ------------------------------------------------ claims on the import
\* the calls that end an import, among those made on the connector
Endings == SelectSeq(connector, LAMBDA x : x \in {"checkpoint", "rollback"})

\* C19: an import that reaches finalize ends with exactly one of checkpoint
\* and rollback of the table, made after every worker has finished: rollback
\* if and only if load_failed is true when finalize decides, checkpoint
\* otherwise.
C19_CheckpointOrRollback ==
  /\ importer.pc = "returned" =>
       /\ Len(Endings) = 1
       /\ Endings[1] = "rollback" <=> import_status.load_failed
       /\ connector[Len(connector)] = Endings[1]
  /\ importer.pc # "returned" => Endings = <<>>
  /\ importer.pc \in {"finalize", "dictionaries", "decide", "returned"} =>
       \A w \in Workers : worker[w].pc = "done"

\* the workers inserted their batches without failing, the checkpoint of a
\* dictionary of the disk-resident table failed in finalize, and the import
\* ended with the rollback
C19_Witness ==
  /\ importer.pc = "returned"
  /\ table_.persistenceLevel = "DISK_LEVEL"
  /\ import_status.rows_rejected <= table_.max_reject
  /\ Len(connector) > 1 /\ connector[1] = "insertData"
  /\ connector[Len(connector)] = "rollback"

\* ------------------------------------------- claims on the graph, continued
\* C21: on every reachable grant graph each of grantPrivileges,
\* revokePrivileges, grantRole, revokeRole and revokeAllOnDatabase ends: the
\* recursion of Role::updatePrivileges and Role::revokeAllOnDatabase never
\* nests deeper than there are grantees, and the stack walk of checkCycles
\* never pops more nodes than there are paths, diamonds included.
C21_Terminates == err # Diverged

\* a grant to the role at the top of a diamond (held by two roles that the
\* user both holds) returned and reached the user along both paths
C21_Witness ==
  /\ last.op = "grantPrivileges" /\ err = NoError
  /\ roles[User(1)] = {Role(1), Role(2)}
  /\ roles[Role(1)] = {Role(3)} /\ roles[Role(2)] = {Role(3)}
  /\ \A g \in Grantees \ {Role(3)} : DOMAIN directPrivileges[g] = {}
  /\ Get(directPrivileges[Role(3)], KeyDb) = {"SELECT"}
  /\ Get(effectivePrivileges[User(1)], KeyDb) = {"SELECT"}

\* The five-step reference of the recomputation: zero the effective bitsets,
\* OR in every direct entry, OR in every granted role's effective entries by
\* key, erase the empty keys.
refEffective(S, g) ==
  LET keys == DOMAIN S.eff[g] \cup DOMAIN S.direct[g]
                \cup UNION {DOMAIN S.eff[r] : r \in S.roles[g]}
      bits(k) == Get(S.direct[g], k) \cup UNION {Get(S.eff[r], k) : r \in S.roles[g]}
  IN [k \in {x \in keys : hasAny(bits(x))} |-> bits(k)]

\* ... then recurse into the grantees when the node is a role
RECURSIVE refUpdate(_, _, _)
RECURSIVE refPush(_, _, _)
refUpdate(S, g, depth) ==
  LET S1 == [S EXCEPT !.eff[g] = refEffective(S, g)]
  IN IF depth > MaxDepth THEN {Throw(S, Diverged)}
     ELSE IF isUser(g) THEN {S1}
     ELSE refPush(S1, S1.grantees[g], depth)

refPush(S, todo, depth) ==
  IF todo = {} THEN {S}
  ELSE UNION {UNION {refPush(S2, todo \ {x}, depth) :
                       S2 \in refUpdate(S, x, depth + 1)} : x \in todo}

\* the states the calls hand to updatePrivileges from the state reached, each
\* with the grantee recomputed: the state itself, and the state as
\* grantPrivileges, revokePrivileges, grantRole, revokeRole and
\* revokeAllOnDatabase have changed it when they make the call
HandedToUpdate ==
  {<<State, g>> : g \in alive}
  \cup {<<[State EXCEPT !.eff[o[1]] = grantInto(@, o[2], o[3]),
                        !.direct[o[1]] = grantInto(@, o[2], o[3])], o[1]>> :
          o \in {x \in PrivUniverse.objects : x[1] \in alive}}
  \cup {<<[State EXCEPT !.direct[o[1]] = revokeFromDirect(@, o[2], o[3]),
                        !.eff[o[1]] = revokeFromCached(@, o[2], o[3])], o[1]>> :
          o \in {x \in PrivUniverse.objects :
                   /\ x[1] \in alive /\ Has(directPrivileges[x[1]], x[2])
                   /\ hasAny(directPrivileges[x[1]][x[2]])}}
  \cup {<<[State EXCEPT !.roles[e[1]] = @ \cup {e[2]},
                        !.grantees[e[2]] = @ \cup {e[1]}], e[1]>> :
          e \in {x \in alive \X (alive \cap Roles) :
                   /\ x[2] \notin roles[x[1]] /\ x[2] # x[1]
                   /\ x[2] \notin Descendants(State, x[1])}}
  \cup {<<[State EXCEPT !.roles[e[1]] = @ \ {e[2]},
                        !.grantees[e[2]] = @ \ {e[1]}], e[1]>> :
          e \in {x \in alive \X (alive \cap Roles) : x[2] \in roles[x[1]]}}
  \cup {<<[State EXCEPT !.eff[g] = eraseDatabase(@, d),
                        !.direct[g] = eraseDatabase(@, d)], g>> :
          g \in alive, d \in PrivUniverse.dbs}

\* C23: wherever a call recomputes a grantee, the code's recomputation gives
\* the maps (keys and bitsets) the five-step reference gives, for the grantee
\* and for everything below it, under every iteration order; no direct entry
\* with bits is lost for want of its key in the effective map at step 2.
C23_MatchesReference ==
  \A h \in HandedToUpdate :
    /\ updatePrivileges(h[1], h[2], 1) = refUpdate(h[1], h[2], 1)
    /\ \A k \in DOMAIN h[1].direct[h[2]] :
         hasAny(h[1].direct[h[2]][k]) => Has(h[1].eff[h[2]], k)

\* a role holding a key of its own was granted to a user that holds other
\* keys, and the user's recomputation merged both
C23_Witness ==
  /\ last.op = "grantRole" /\ err = NoError
  /\ Role(2) \in roles[User(1)]
  /\ Get(directPrivileges[Role(2)], KeyDb) = {"SELECT"}
  /\ Get(directPrivileges[User(1)], KeyTable) = {"INSERT"}
  /\ ~Has(directPrivileges[User(1)], KeyDb)
  /\ Get(effectivePrivileges[User(1)], KeyDb) = {"SELECT"}
  /\ Get(effectivePrivileges[User(1)], KeyTable) = {"INSERT"}

\* C24: getRoles(only_direct = true) returns exactly the names of the roles in
\* the grantee's own roles set; getRoles(only_direct = false) returns exactly
\* the names of the roles reachable through one or more roles edges; each
\* name once, under every push order.
C24_GetRoles ==
  /\ \A g \in alive :
       /\ getRoles(State, g, TRUE) = {vector({getName(r) : r \in roles[g]})}
       /\ getRoles(State, g, FALSE) =
            {vector({getName(r) : r \in Ancestors(State, g)})}
  /\ last.op = "getRoles" =>
       /\ \A i, j \in 1..Len(last.ret.names) :
            i # j => last.ret.names[i] # last.ret.names[j]
       /\ {last.ret.names[i] : i \in 1..Len(last.ret.names)} =
            {getName(r) : r \in IF last.ret.only_direct
                                THEN roles[last.ret.grantee]
                                ELSE Ancestors(State, last.ret.grantee)}

\* the user holds Role(1), which holds Role(2) and Role(3), and Role(2) holds
\* Role(3) too; the user was asked for its roles, direct and all: the role two
\* edges up, reachable along two paths, is named once
C24_Witness ==
  /\ last.op = "getRoles" /\ last.ret.grantee = User(1) /\ ~last.ret.only_direct
  /\ roles[User(1)] = {Role(1)}
  /\ roles[Role(1)] = {Role(2), Role(3)} /\ roles[Role(2)] = {Role(3)}
  /\ last.ret.names = <<1, 2, 3>>
  /\ getRoles(State, User(1), TRUE) = {<<1>>}

\* C26: revokeRole(g, role) with role not among the roles of g fails with the
\* 'have not been granted' error and leaves the roles, the grantees, the
\* direct and the effective maps of every grantee as they were.
C26_NotGranted ==
  \A g \in alive, r \in alive \cap Roles :
    r \notin roles[g] =>
      /\ revokeRole(State, g, r) # {}
      /\ \A T \in revokeRole(State, g, r) :
           /\ T.err = NotGranted
           /\ T.roles = roles /\ T.grantees = grantees /\ SameMaps(T)

\* Role(2), which the user does not hold, was revoked from the user, who holds
\* Role(1) and its effective entry
C26_Witness ==
  /\ last.op = "revokeRole" /\ err = NotGranted
  /\ roles[User(1)] = {Role(1)} /\ grantees[Role(2)] = {}
  /\ Role(2) \in alive
  /\ Get(directPrivileges[Role(1)], KeyDb) = {"SELECT"}
  /\ Get(directPrivileges[Role(2)], KeyDb) = {"SELECT"}
  /\ effectivePrivileges[User(1)] = effectivePrivileges[Role(1)]

\* ------------------------------------- claims on the guards, continued
\* thread t, holding shared access to the sharedMutex_ of c through a guard
\* in scope, is in the constructor of a write_lock on c, at the request for
\* exclusive access
Upgrading(t, c) ==
  /\ Len(guards[t]) > 1
  /\ Top(t).kind = "write_lock" /\ Top(t).catalog = c /\ Top(t).pc = "lock"
  /\ t \in sharedMutex_[c].readers
  /\ \E o \in Outer(t, Len(guards[t])) :
       o.kind = "read_lock" /\ o.catalog = c /\ o.holds_lock

\* C29: a thread that holds a catalog's read lock through a read_lock guard
\* and constructs a write_lock on the catalog requests exclusive access (it is
\* not taken to hold the lock), and from then on never leaves that request;
\* a read_lock constructed inside a write_lock on the catalog never waits.
C29_UpgradeBlocks ==
  /\ [][\A t \in Threads, c \in Catalogs :
          /\ Upgrading(t, c) => Upgrading(t, c)'
          /\ (/\ Len(guards'[t]) = Len(guards[t]) + 1
              /\ Top(t)'.kind = "write_lock" /\ Top(t)'.catalog = c
              /\ \E i \in 1..Len(guards[t]) :
                   /\ guards[t][i].kind = "read_lock" /\ guards[t][i].catalog = c
                   /\ guards[t][i].holds_lock)
               => Upgrading(t, c)']_vars
  /\ [](\A t \in Threads : \A i \in 1..Len(guards[t]) :
          (/\ guards[t][i].kind = "read_lock"
           /\ \E o \in Outer(t, i) :
                /\ o.kind = "write_lock" /\ o.catalog = guards[t][i].catalog
                /\ o.holds_lock)
            => TookNothing(guards[t][i]))

\* t1 holds the read lock of catalog A, alone, and waits in write_lock(A)
C29_Witness ==
  /\ Upgrading("t1", "A")
  /\ sharedMutex_["A"] = [writer |-> no_thread, readers |-> {"t1"}]
  /\ guards["t2"] = <<>>

RECURSIVE sumInserted(_, _)
sumInserted(batches, count) ==
  IF batches = <<>> THEN 0
  ELSE batches[1][count] + sumInserted(Tail(batches), count)

\* the sum of a count over the batches the workers given hold
RECURSIVE sumPending(_, _)
sumPending(todo, count) ==
  IF todo = {} THEN 0
  ELSE LET w == CHOOSE x \in todo : TRUE
       IN worker[w].batch[count] + sumPending(todo \ {w}, count)

\* C28: no update of the shared status is lost: when every worker has left
\* its loop, rows_completed and rows_rejected of import_status are the sums
\* of the batches' counts over exactly the batches insertData was called
\* with, each counted once; while workers run, the status lacks exactly the
\* counts of the batches inserted and not yet added.
C28_NoLostUpdates ==
  LET pending == {w \in Workers : worker[w].pc = "update"}
      owed(count) == sumPending(pending, count)
  IN /\ import_status.rows_completed + owed("rows_completed") =
          sumInserted(inserted, "rows_completed")
     /\ import_status.rows_rejected + owed("rows_rejected") =
          sumInserted(inserted, "rows_rejected")
     /\ Len(inserted) = Len(SelectSeq(connector, LAMBDA x : x = "insertData"))
     /\ (\A w \in Workers : worker[w].pc = "done") => pending = {}

\* both workers inserted a batch with rows and added its counts, one after
\* the other, and have left their loops
C28_Witness ==
  /\ \A w \in Workers : worker[w].pc = "done"
  /\ Len(inserted) = 2
  /\ inserted[1].rows_completed = 1 /\ inserted[2].rows_completed = 1
  /\ import_status.rows_completed = 2
  /\ import_status.rows_rejected = 1
  /\ ~import_status.load_failed

\* ------------------------------------------- claims on the buffer pool
\* the buffers a step evicts
Victims == {c \in ChunkKeys : nodeMemoryData[c].memStatus = "USED"
                               /\ nodeMemoryData'[c].memStatus = "EVICTED"}

\* C22: eviction never selects a pinned chunk and takes the coldest first:
\* every buffer a step evicts was USED with pinCount = 0, every unpinned USED
\* buffer with a smaller touch stamp is evicted with it, a step evicts only
\* for an allocation that lacks the pages, and no more than it needs (without
\* its warmest victim the pages would not suffice).
C22_EvictsColdestUnpinned ==
  [][\A c \in Victims :
       /\ nodeMemoryData[c].pinCount = 0
       /\ \A d \in Evictable(nodeMemoryData) :
            nodeMemoryData[d].touch < nodeMemoryData[c].touch => d \in Victims
       /\ pool_last'.op = "createChunkBuffer"
       /\ (\A d \in Victims : nodeMemoryData[d].touch <= nodeMemoryData[c].touch)
            => \E n \in PageCounts :
                 /\ pool_last'.ret = "" => nodeMemoryData'[pool_last'.chunk_key].numPages = n
                 /\ maxNumPages - numPageAllocated(nodeMemoryData)
                      + sumPages(nodeMemoryData, Victims \ {c}) < n]_vars

\* the pool of two pages was filled with c1 and c2, c1 was accessed and
\* released, and the allocation of c3 evicted c2 and not c1
C22_Witness ==
  /\ pool_last = [op |-> "createChunkBuffer", chunk_key |-> "c3", ret |-> ""]
  /\ nodeMemoryData["c2"].memStatus = "EVICTED"
  /\ \A c \in {"c1", "c3"} :
       nodeMemoryData[c].memStatus = "USED" /\ nodeMemoryData[c].pinCount = 0
  /\ nodeMemoryData["c2"].touch < nodeMemoryData["c1"].touch
  /\ nodeMemoryData["c1"].touch < nodeMemoryData["c3"].touch
  /\ nodeMemoryData["c1"].touch > 2

====
